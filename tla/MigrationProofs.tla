--------------------------- MODULE MigrationProofs ---------------------------
(***************************************************************************)
(* Proofs about Migration, for any number of processes, results, streams   *)
(* and faults: every state is well typed, whoever finishes first finds     *)
(* everything served, and the migration of a database implements no step   *)
(* of a set of results.                                                    *)
(*                                                                         *)
(* The last two are proved for an earlier version that keeps its outputs   *)
(* in test_result_outputs; run LateOutputs shows that they do not hold for *)
(* one that still writes the old columns.  Neither is inductive: the step  *)
(* that clears the old columns knows nothing of what has been copied.  The *)
(* invariant says, for a process at each stage, what it or another one     *)
(* must have copied by then.                                               *)
(***************************************************************************)
EXTENDS Migration, TLAPS, SequenceTheorems

\* A result has its name, or its test's row, and not both.
NamesAreKept ==
    \A r \in results :
        \/ row[r].key = KeyOf[r] /\ row[r].testId = NoKey
        \/ row[r].key = NoKey /\ row[r].testId = KeyOf[r] /\ KeyOf[r] \in tests

\* An old column holds what was printed, or was cleared.
LegacyIsFaithful == \A r \in results : row[r].legacy \in {Nothing, Printed[r]}

\* A row holds what was printed, or refers to blobs that are there.
OutputRowIsFaithful(r) ==
    \/ out[r].inline = Printed[r] /\ out[r].blob = Nothing
    \/ out[r].inline = Nothing /\ out[r].blob = Printed[r] /\ TextsIn(Printed[r]) \subseteq blobs

OutputsAreFaithful == \A r \in outputs : OutputRowIsFaithful(r)

\* Every young result has its outputs in one place or the other.
OutputsAreKept ==
    \A r \in results \ Old : r \in outputs \/ row[r].legacy = Printed[r]

\* A database without the old columns has nothing in them.
LegacyNeedsColumns == LegacyColumns \notin schema => \A r \in results : row[r].legacy = Nothing

\* What is still to be copied, and what is still to be moved.
Missing == (results \ Old) \ outputs
Unmoved == {r \in results \ Late : row[r].key # NoKey}

\* A process that has read outputs has read what was printed.
ItemsAreFaithful(p) == \A i \in proc[p].items : i.text = Printed[i.id]

\* Before it writes them, it has all those that nobody else has copied.
ItemsAreComplete(p) ==
    proc[p].pc = "outputsWrite" => \A r \in Missing : \E i \in proc[p].items : i.id = r

\* Stages at which all outputs have been copied, and all names moved.
Copied == {"inlineRead", "inlineWrite", "clear", "serving", "pruneOutputs", "pruneBlobs", "pruneLegacy"}
OutputsAreCopied(p) == proc[p].pc \in Copied => Missing = {}
NamesAreMoved(p) == proc[p].pc \in Copied \cup {"outputsRead", "outputsWrite"} => Unmoved = {}

DataInv == NamesAreKept /\ LegacyIsFaithful /\ OutputsAreFaithful /\ OutputsAreKept /\ LegacyNeedsColumns
ProcInv(p) == ItemsAreFaithful(p) /\ ItemsAreComplete(p) /\ OutputsAreCopied(p) /\ NamesAreMoved(p)
MigrationInv == TypeOK /\ DataInv /\ \A p \in Processes : ProcInv(p)

-----------------------------------------------------------------------------
(* Types.                                                                  *)

LEMMA SchemaStepsType ==
    /\ 1 \in DOMAIN SchemaSteps
    /\ SchemaSteps[1].name = "test_result_outputs"
    /\ Len(SchemaSteps) \in Nat
    /\ DOMAIN SchemaSteps = 1 .. Len(SchemaSteps)
<1> DEFINE t1 == Table("test_result_outputs", IF Dialect = "postgres" THEN "BYTEA" ELSE "BLOB")
           t2 == Table("output_blobs", "BLOB")
           t3 == Table("tests", "TEXT")
           t4 == Column("test_id", "TEXT")
           n == Len(BlobColumns)
           column(i) == Column(BlobColumns[i], "TEXT")
           columns == [i \in DOMAIN BlobColumns |-> column(i)]
           S == {t1, t2, t3, t4} \cup {column(i) : i \in 1 .. n}
<1>1. t1.name = "test_result_outputs"
    BY DEF Table
<1>2. SchemaSteps = (<<t1, t2>> \o columns) \o <<t3, t4>>
    BY DEF SchemaSteps
<1>3. n \in Nat /\ columns \in [1 .. n -> S]
    BY BlobColumnsAssumption
<1>4. t1 \in S /\ t2 \in S /\ t3 \in S /\ t4 \in S
    OBVIOUS
<1> HIDE DEF t1, t2, t3, t4, n, columns, S
<1>5. columns \in Seq(S) /\ Len(columns) \in Nat
    <2>1. columns \in Seq(S)
        BY <1>3, SeqDef
    <2> QED
        BY <2>1
<1> DEFINE first == <<t1, t2>>
           last == <<t3, t4>>
<1>6. /\ first \in Seq(S) /\ Len(first) = 2 /\ first[1] = t1
      /\ last \in Seq(S) /\ Len(last) = 2
    BY <1>4
<1> HIDE DEF first, last
<1>7. /\ first \o columns \in Seq(S)
      /\ Len(first \o columns) \in Nat /\ Len(first \o columns) >= 2
      /\ (first \o columns)[1] = t1
    <2>1. first \o columns \in Seq(S)
        BY <1>5, <1>6, ConcatProperties
    <2>2. Len(first \o columns) = Len(first) + Len(columns)
        BY <1>5, <1>6, ConcatProperties
    <2>3. (first \o columns)[1] = first[1]
        <3>1. 1 \in 1 .. Len(first) + Len(columns) /\ 1 <= Len(first)
            BY <1>5, <1>6
        <3> QED
            BY <1>5, <1>6, <3>1, ConcatProperties
    <2> QED
        BY <1>5, <1>6, <2>1, <2>2, <2>3
<1> DEFINE all == (first \o columns) \o last
<1>8. all \in Seq(S) /\ Len(all) \in Nat /\ Len(all) >= 2 /\ all[1] = t1
    BY <1>6, <1>7, ConcatProperties
<1>9. SchemaSteps = all
    BY <1>2 DEF first, last
<1> HIDE DEF all
<1> QED
    BY <1>1, <1>8, <1>9

LEMMA StepsMove ==
    ASSUME NEW i \in DOMAIN SchemaSteps, i # Len(SchemaSteps)
    PROVE  i + 1 \in DOMAIN SchemaSteps
BY SchemaStepsType

LEMMA SchemaNamesType ==
    /\ \A i \in DOMAIN SchemaSteps : SchemaSteps[i].name \in SchemaNames
    /\ "test_result_outputs" \in SchemaNames
BY SchemaStepsType DEF SchemaNames

LEMMA NothingType == Nothing \in Outputs
BY DEF Nothing, Outputs

LEMMA KeysType == \A r \in Results : KeyOf[r] \in Keys
BY DEF Keys

LEMMA PrintedType == \A r \in Results : Printed[r] \in Outputs /\ Printed[r] # Nothing
BY MigrationAssumption

LEMMA TextsInType == ASSUME NEW o \in Outputs PROVE TextsIn(o) \subseteq Texts
BY DEF Outputs, TextsIn

LEMMA DownType == ASSUME NEW pc \in PCs PROVE [Down EXCEPT !.pc = pc] \in ProcessStates
BY SchemaStepsType DEF Down, ProcessStates, PCs

LEMMA GotoType ==
    ASSUME TypeOK, NEW p \in Processes, NEW pc \in PCs, Goto(p, pc)
    PROVE  proc' \in [Processes -> ProcessStates]
BY DownType DEF Goto, TypeOK

LEMMA TypeInit == Init => TypeOK
<1> SUFFICES ASSUME Init PROVE TypeOK
    OBVIOUS
<1> USE NothingType, KeysType, PrintedType
<1>1. schema \in SUBSET (SchemaNames \cup {LegacyColumns})
    BY SchemaNamesType DEF Init, Schemas
<1>2. results \in SUBSET Results
    BY DEF Init, Results
<1>3. PICK inColumns, inRows \in SUBSET Legacy :
        /\ row = [r \in Results |-> IF r \in Legacy THEN OldRow(r, r \in inColumns) ELSE Absent]
        /\ outputs = inRows
        /\ out = [r \in Results |-> IF r \in inRows THEN [NoOutput EXCEPT !.inline = Printed[r]]
                                   ELSE NoOutput]
    BY DEF Init
<1>4. row \in [Results -> Rows]
    <2>1. Absent \in Rows
        BY DEF Absent, Rows
    <2>2. \A r \in Results : OldRow(r, TRUE) \in Rows /\ OldRow(r, FALSE) \in Rows
        BY DEF OldRow, Rows
    <2>3. \A r \in Results : OldRow(r, r \in inColumns) \in Rows
        BY DEF OldRow, Rows
    <2> QED
        BY <1>3, <2>1, <2>3
<1>5. outputs \in SUBSET results /\ out \in [Results -> OutputRows]
    BY <1>3 DEF Init, NoOutput, OutputRows
<1>6. proc \in [Processes -> ProcessStates]
    <2>1. Down \in ProcessStates
        BY SchemaStepsType DEF Down, ProcessStates, PCs
    <2> QED
        BY <2>1 DEF Init
<1> QED
    BY <1>1, <1>2, <1>4, <1>5, <1>6, MigrationAssumption DEF Init, TypeOK

LEMMA NextStepType ==
    ASSUME TypeOK, NEW p \in Processes, NextStep(p)
    PROVE  proc' \in [Processes -> ProcessStates]
<1>1. CASE proc[p].step = Len(SchemaSteps)
    BY <1>1, GotoType DEF NextStep, PCs
<1>2. CASE proc[p].step # Len(SchemaSteps)
    <2>1. proc[p].step \in DOMAIN SchemaSteps
        BY DEF TypeOK, ProcessStates
    <2>2. proc[p].step + 1 \in DOMAIN SchemaSteps
        BY <1>2, <2>1, StepsMove
    <2>3. proc' = [proc EXCEPT ![p].pc = "schema", ![p].step = proc[p].step + 1]
        BY <1>2 DEF NextStep
    <2> QED
        BY <2>2, <2>3 DEF TypeOK, ProcessStates, PCs
<1> QED
    BY <1>1, <1>2

LEMMA FailType ==
    ASSUME TypeOK, NEW p \in Processes, Fail(p)
    PROVE  TypeOK'
<1>1. proc' \in [Processes -> ProcessStates]
    BY GotoType DEF Fail, PCs
<1> QED
    BY <1>1 DEF Fail, TypeOK, data

LEMMA AfterMigrationType == \A p \in Processes : AfterMigration(p) \in PCs
BY DEF AfterMigration, PCs

LEMMA ItemType ==
    ASSUME TypeOK, NEW p \in Processes, NEW i \in proc[p].items
    PROVE  i.id \in Results /\ i.text \in Outputs
<1>1. proc[p] \in ProcessStates
    BY DEF TypeOK
<1> QED
    BY <1>1 DEF ProcessStates

LEMMA TypeStep == TypeOK /\ [Next]_vars => TypeOK'
<1> SUFFICES ASSUME TypeOK, [Next]_vars PROVE TypeOK'
    OBVIOUS
<1> USE NothingType, KeysType, PrintedType
<1>1. ASSUME NEW p \in Processes, Start(p) PROVE TypeOK'
    <2>1. proc' \in [Processes -> ProcessStates]
        BY <1>1, GotoType DEF Start, PCs
    <2> QED
        BY <1>1, <2>1 DEF Start, TypeOK, data
<1>2. ASSUME NEW p \in Processes, CreateTable(p) PROVE TypeOK'
    <2>1. CASE Accepts(SchemaSteps[proc[p].step].type)
        <3>1. proc' \in [Processes -> ProcessStates]
            BY <1>2, <2>1, NextStepType DEF CreateTable
        <3>2. SchemaSteps[proc[p].step].name \in SchemaNames
            BY SchemaNamesType DEF TypeOK, ProcessStates
        <3> QED
            BY <1>2, <2>1, <3>1, <3>2 DEF CreateTable, TypeOK, data
    <2>2. CASE ~ Accepts(SchemaSteps[proc[p].step].type)
        BY <1>2, <2>2, FailType DEF CreateTable
    <2> QED
        BY <2>1, <2>2
<1>3. ASSUME NEW p \in Processes, FindColumn(p) PROVE TypeOK'
    <2>1. proc' \in [Processes -> ProcessStates]
        <3>1. CASE SchemaSteps[proc[p].step].name \in schema
            BY <1>3, <3>1, NextStepType DEF FindColumn
        <3>2. CASE SchemaSteps[proc[p].step].name \notin schema
            BY <1>3, <3>2 DEF FindColumn, TypeOK, ProcessStates, PCs
        <3> QED
            BY <3>1, <3>2
    <2> QED
        BY <1>3, <2>1 DEF FindColumn, TypeOK, data
<1>4. ASSUME NEW p \in Processes, AddColumn(p) PROVE TypeOK'
    <2>1. CASE SchemaSteps[proc[p].step].name \notin schema
        <3>1. proc' \in [Processes -> ProcessStates]
            BY <1>4, <2>1, NextStepType DEF AddColumn
        <3>2. SchemaSteps[proc[p].step].name \in SchemaNames
            BY SchemaNamesType DEF TypeOK, ProcessStates
        <3> QED
            BY <1>4, <2>1, <3>1, <3>2 DEF AddColumn, TypeOK, data
    <2>2. CASE SchemaSteps[proc[p].step].name \in schema
        BY <1>4, <2>2, FailType DEF AddColumn
    <2> QED
        BY <2>1, <2>2
<1>5. ASSUME NEW p \in Processes, ReadCatalog(p) PROVE TypeOK'
    <2>1. proc' \in [Processes -> ProcessStates]
        <3>1. CASE Unnamed = {}
            BY <1>5, <3>1, GotoType DEF ReadCatalog, PCs
        <3>2. CASE Unnamed # {}
            <4>1. \A r \in Unnamed : row[r].key \in Keys
                BY DEF Unnamed, TypeOK, Rows
            <4>2. {row[r].key : r \in Unnamed} \in SUBSET Keys
                BY <4>1
            <4> QED
                BY <1>5, <3>2, <4>2 DEF ReadCatalog, TypeOK, ProcessStates, PCs
        <3> QED
            BY <3>1, <3>2
    <2> QED
        BY <1>5, <2>1 DEF ReadCatalog, TypeOK, data
<1>6. ASSUME NEW p \in Processes, WriteCatalog(p) PROVE TypeOK'
    <2>1. CASE \A r \in Unnamed : row[r].key \in tests \cup proc[p].keys
        <3>1. proc' \in [Processes -> ProcessStates]
            BY <1>6, <2>1, GotoType DEF WriteCatalog, PCs
        <3>2. proc[p].keys \in SUBSET Keys
            BY DEF TypeOK, ProcessStates
        <3>3. \A r \in Results : Named(r) \in Rows
            BY DEF Named, TypeOK, Rows
        <3> QED
            BY <1>6, <2>1, <3>1, <3>2, <3>3 DEF WriteCatalog, TypeOK
    <2>2. CASE ~ \A r \in Unnamed : row[r].key \in tests \cup proc[p].keys
        BY <1>6, <2>2, FailType DEF WriteCatalog
    <2> QED
        BY <2>1, <2>2
<1>7. ASSUME NEW p \in Processes, ReadOutputs(p) PROVE TypeOK'
    <2>1. proc' \in [Processes -> ProcessStates]
        <3>1. CASE HasLegacyColumns
            <4>1. \A r \in Unconverted : r \in Results /\ row[r].legacy \in Outputs
                BY DEF Unconverted, TypeOK, Rows
            <4>2. {[id |-> r, text |-> row[r].legacy] : r \in Unconverted}
                    \in SUBSET [id : Results, text : Outputs]
                BY <4>1
            <4> QED
                BY <1>7, <3>1, <4>2 DEF ReadOutputs, TypeOK, ProcessStates, PCs
        <3>2. CASE ~ HasLegacyColumns
            BY <1>7, <3>2, GotoType, AfterMigrationType DEF ReadOutputs
        <3> QED
            BY <3>1, <3>2
    <2> QED
        BY <1>7, <2>1 DEF ReadOutputs, TypeOK, data
<1>8. ASSUME NEW p \in Processes, WriteOutputs(p) PROVE TypeOK'
    <2> DEFINE items == proc[p].items
    <2>1. CASE \A i \in items : i.id \in results \ outputs
        <3>1. proc' \in [Processes -> ProcessStates]
            BY <1>8, <2>1, GotoType DEF WriteOutputs, PCs
        <3>2. \A i \in items : TextsIn(i.text) \subseteq Texts
            BY ItemType, TextsInType
        <3>3. blobs' \subseteq Texts
            BY <1>8, <2>1, <3>2 DEF WriteOutputs, TypeOK
        <3>4. \A r \in Results :
                (\E i \in items : i.id = r) => ReadText(items, r) \in Outputs
            BY ItemType DEF ReadText
        <3>5. out' \in [Results -> OutputRows]
            <4>1. \A r \in Results :
                    (\E i \in items : i.id = r) =>
                        [inline |-> Nothing, blob |-> ReadText(items, r)] \in OutputRows
                BY <3>4 DEF OutputRows
            <4> QED
                BY <1>8, <2>1, <4>1 DEF WriteOutputs, TypeOK
        <3>6. outputs' \subseteq results'
            BY <1>8, <2>1 DEF WriteOutputs, TypeOK
        <3> QED
            BY <1>8, <2>1, <3>1, <3>3, <3>5, <3>6 DEF WriteOutputs, TypeOK
    <2>2. CASE ~ \A i \in items : i.id \in results \ outputs
        BY <1>8, <2>2, FailType DEF WriteOutputs
    <2> QED
        BY <2>1, <2>2
<1>9. ASSUME NEW p \in Processes, ReadInline(p) PROVE TypeOK'
    <2>1. proc' \in [Processes -> ProcessStates]
        <3>1. CASE Inline = {}
            BY <1>9, <3>1, GotoType DEF ReadInline, PCs
        <3>2. CASE Inline # {}
            <4>1. \A r \in Inline : r \in Results /\ out[r].inline \in Outputs
                BY DEF Inline, TypeOK, OutputRows
            <4>2. {[id |-> r, text |-> out[r].inline] : r \in Inline}
                    \in SUBSET [id : Results, text : Outputs]
                BY <4>1
            <4> QED
                BY <1>9, <3>2, <4>2 DEF ReadInline, TypeOK, ProcessStates, PCs
        <3> QED
            BY <3>1, <3>2
    <2> QED
        BY <1>9, <2>1 DEF ReadInline, TypeOK, data
<1>10. ASSUME NEW p \in Processes, WriteInline(p) PROVE TypeOK'
    <2> DEFINE items == proc[p].items
    <2>1. proc' \in [Processes -> ProcessStates]
        BY <1>10, GotoType DEF WriteInline, PCs
    <2>2. \A i \in items : TextsIn(i.text) \subseteq Texts
        BY ItemType, TextsInType
    <2>3. blobs' \subseteq Texts
        BY <1>10, <2>2 DEF WriteInline, TypeOK
    <2>4. \A r \in Results :
            (\E i \in items : i.id = r) => ReadText(items, r) \in Outputs
        BY ItemType DEF ReadText
    <2>5. \A r \in Results : Referenced(r, items) \in OutputRows
        BY <2>4 DEF Referenced, TypeOK, OutputRows
    <2> QED
        BY <1>10, <2>1, <2>3, <2>5 DEF WriteInline, TypeOK
<1>11. ASSUME NEW R PROVE Cleared(R) \in [Results -> Rows]
    BY DEF Cleared, TypeOK, Rows
<1>12. ASSUME NEW p \in Processes, ClearLegacyOutputs(p) PROVE TypeOK'
    <2>1. proc' \in [Processes -> ProcessStates]
        BY <1>12, GotoType, AfterMigrationType DEF ClearLegacyOutputs
    <2> QED
        BY <1>11, <1>12, <2>1 DEF ClearLegacyOutputs, TypeOK
<1>13. ASSUME NEW p \in Processes, PruneOutputs(p) PROVE TypeOK'
    <2>1. proc' \in [Processes -> ProcessStates]
        BY <1>13, GotoType DEF PruneOutputs, PCs
    <2>2. NoOutput \in OutputRows
        BY DEF NoOutput, OutputRows
    <2> QED
        BY <1>13, <2>1, <2>2 DEF PruneOutputs, TypeOK
<1>14. ASSUME NEW p \in Processes, DeleteOrphanedOutputBlobs(p) PROVE TypeOK'
    <2>1. proc' \in [Processes -> ProcessStates]
        BY <1>14, GotoType DEF DeleteOrphanedOutputBlobs, PCs
    <2> QED
        BY <1>14, <2>1 DEF DeleteOrphanedOutputBlobs, TypeOK
<1>15. ASSUME NEW p \in Processes, PruneLegacyOutputs(p) PROVE TypeOK'
    <2>1. proc' \in [Processes -> ProcessStates]
        BY <1>15, GotoType DEF PruneLegacyOutputs, PCs
    <2> QED
        BY <1>11, <1>15, <2>1 DEF PruneLegacyOutputs, TypeOK
<1>16. ASSUME NEW p \in Processes, Crash(p) PROVE TypeOK'
    <2>1. proc' \in [Processes -> ProcessStates]
        BY <1>16, GotoType DEF Crash, PCs
    <2> QED
        BY <1>16, <2>1, MigrationAssumption DEF Crash, TypeOK, data
<1>17. ASSUME NEW r \in Results, CreateRun(r) PROVE TypeOK'
    <2>1. [Absent EXCEPT !.testId = KeyOf[r]] \in Rows
          /\ [NoOutput EXCEPT !.blob = Printed[r]] \in OutputRows
        BY DEF Absent, Rows, NoOutput, OutputRows
    <2>2. TextsIn(Printed[r]) \subseteq Texts
        BY TextsInType
    <2> QED
        BY <1>17, <2>1, <2>2 DEF CreateRun, TypeOK
<1>18. ASSUME NEW r \in Results, CreateLateRun(r) PROVE TypeOK'
    <2>1. OldRow(r, LateColumns = "legacy") \in Rows
          /\ [NoOutput EXCEPT !.inline = Printed[r]] \in OutputRows
        BY DEF OldRow, Rows, NoOutput, OutputRows
    <2> QED
        BY <1>18, <2>1 DEF CreateLateRun, TypeOK
<1>19. ASSUME NEW r \in Results, DeleteRun(r) PROVE TypeOK'
    <2>1. Absent \in Rows /\ NoOutput \in OutputRows
        BY DEF Absent, Rows, NoOutput, OutputRows
    <2> QED
        BY <1>19, <2>1 DEF DeleteRun, TypeOK
<1>20. CASE UNCHANGED vars
    BY <1>20 DEF vars, data, TypeOK
<1> QED
    BY <1>1, <1>2, <1>3, <1>4, <1>5, <1>6, <1>7, <1>8, <1>9, <1>10, <1>12, <1>13, <1>14, <1>15,
       <1>16, <1>17, <1>18, <1>19, <1>20 DEF Next, Step

\* Every table and process of Migration keeps its type, whatever an earlier
\* version still writes.
THEOREM MigrationTypeCorrect == Spec => []TypeOK
BY TypeInit, TypeStep, PTL DEF Spec

-----------------------------------------------------------------------------
(* The invariant.                                                          *)

LEMMA InvInit == Init => MigrationInv
<1> SUFFICES ASSUME Init PROVE MigrationInv
    OBVIOUS
<1>1. TypeOK
    BY TypeInit
<1>2. PICK inColumns, inRows \in SUBSET Legacy :
        /\ inColumns \cup inRows = Legacy
        /\ LegacyColumns \notin schema => inColumns = {}
        /\ row = [r \in Results |-> IF r \in Legacy THEN OldRow(r, r \in inColumns) ELSE Absent]
        /\ outputs = inRows
        /\ out = [r \in Results |-> IF r \in inRows THEN [NoOutput EXCEPT !.inline = Printed[r]]
                                   ELSE NoOutput]
    BY DEF Init
<1>3. results = Legacy /\ Legacy \subseteq Results
    BY DEF Init, Results
<1>4. \A r \in results : /\ row[r].key = KeyOf[r]
                         /\ row[r].testId = NoKey
                         /\ row[r].legacy = IF r \in inColumns THEN Printed[r] ELSE Nothing
    BY <1>2, <1>3 DEF OldRow
<1>5. NamesAreKept
    BY <1>4 DEF NamesAreKept
<1>6. LegacyIsFaithful /\ LegacyNeedsColumns
    BY <1>2, <1>4 DEF LegacyIsFaithful, LegacyNeedsColumns
<1>7. OutputsAreFaithful
    <2>1. \A r \in outputs : out[r] = [NoOutput EXCEPT !.inline = Printed[r]]
        BY <1>2, <1>3
    <2> QED
        BY <2>1 DEF OutputsAreFaithful, OutputRowIsFaithful, NoOutput
<1>8. OutputsAreKept
    BY <1>2, <1>3, <1>4 DEF OutputsAreKept
<1>9. ASSUME NEW p \in Processes PROVE ProcInv(p)
    BY DEF Init, Down, ProcInv, ItemsAreFaithful, ItemsAreComplete, OutputsAreCopied, NamesAreMoved, Copied
<1> QED
    BY <1>1, <1>5, <1>6, <1>7, <1>8, <1>9 DEF MigrationInv, DataInv

LEMMA GotoMoves ==
    ASSUME TypeOK, NEW p \in Processes, NEW pc, Goto(p, pc)
    PROVE  /\ \A q \in Processes \ {p} : proc'[q] = proc[q]
           /\ proc'[p].pc = pc
           /\ proc'[p].items = {}
BY DEF Goto, Down, TypeOK

LEMMA NextStepMoves ==
    ASSUME TypeOK, NEW p \in Processes, NextStep(p)
    PROVE  /\ \A q \in Processes \ {p} : proc'[q] = proc[q]
           /\ proc'[p].pc \in {"schema", "catalogRead"}
           /\ proc'[p].items \subseteq proc[p].items
<1>1. CASE proc[p].step = Len(SchemaSteps)
    BY <1>1, GotoMoves DEF NextStep
<1>2. CASE proc[p].step # Len(SchemaSteps)
    BY <1>2 DEF NextStep, TypeOK, ProcessStates
<1> QED
    BY <1>1, <1>2

\* A process that waits: while nothing is added that it has to copy or to
\* move, what holds of it holds on.
LEMMA Waits ==
    ASSUME NEW p \in Processes, ProcInv(p), proc'[p] = proc[p],
           Missing' \subseteq Missing, Unmoved' \subseteq Unmoved
    PROVE  ProcInv(p)'
BY DEF ProcInv, ItemsAreFaithful, ItemsAreComplete, OutputsAreCopied, NamesAreMoved

\* A process that moves without reading anything, and the others that wait.
LEMMA Moves ==
    ASSUME MigrationInv, NEW p \in Processes,
           \A q \in Processes \ {p} : proc'[q] = proc[q],
           proc'[p].items \subseteq proc[p].items,
           proc'[p].pc # "outputsWrite",
           proc'[p].pc \in Copied => Missing' = {},
           proc'[p].pc \in Copied \cup {"outputsRead"} => Unmoved' = {},
           Missing' \subseteq Missing, Unmoved' \subseteq Unmoved
    PROVE  \A q \in Processes : ProcInv(q)'
<1>1. ASSUME NEW q \in Processes, q # p PROVE ProcInv(q)'
    BY <1>1, Waits DEF MigrationInv
<1>2. ProcInv(p)'
    BY DEF MigrationInv, ProcInv, ItemsAreFaithful, ItemsAreComplete, OutputsAreCopied, NamesAreMoved
<1> QED
    BY <1>1, <1>2

\* Only the schema and the process are touched.
LEMMA DataStays ==
    ASSUME MigrationInv, UNCHANGED data, schema \subseteq schema'
    PROVE  DataInv' /\ Missing' = Missing /\ Unmoved' = Unmoved
BY DEF MigrationInv, DataInv, NamesAreKept, LegacyIsFaithful, OutputsAreFaithful,
       OutputRowIsFaithful, OutputsAreKept, LegacyNeedsColumns, data, Missing, Unmoved

\* The process goes where nothing is asked of it.
LEMMA Idles ==
    ASSUME MigrationInv, NEW p \in Processes, UNCHANGED data, schema \subseteq schema',
           \A q \in Processes \ {p} : proc'[q] = proc[q],
           proc'[p].items \subseteq proc[p].items,
           proc'[p].pc \in {"down", "schema", "addColumn", "catalogRead", "catalogWrite"}
    PROVE  DataInv' /\ \A q \in Processes : ProcInv(q)'
BY DataStays, Moves DEF Copied

LEMMA FailKeeps ==
    ASSUME MigrationInv, NEW p \in Processes, Fail(p)
    PROVE  DataInv' /\ \A q \in Processes : ProcInv(q)'
BY GotoMoves, Idles DEF Fail, MigrationInv

-----------------------------------------------------------------------------
(* Each step keeps the invariant: first those that touch only the schema    *)
(* and the process, then those that write.                                  *)

LEMMA SchemaKeeps ==
    ASSUME MigrationInv, NEW p \in Processes,
           Start(p) \/ CreateTable(p) \/ FindColumn(p) \/ AddColumn(p) \/ Crash(p)
    PROVE  DataInv' /\ \A q \in Processes : ProcInv(q)'
<1> USE DEF MigrationInv
<1>1. CASE Start(p)
    BY <1>1, GotoMoves, Idles DEF Start
<1>2. CASE CreateTable(p)
    BY <1>2, NextStepMoves, Idles, FailKeeps DEF CreateTable
<1>3. CASE FindColumn(p)
    <2>1. CASE SchemaSteps[proc[p].step].name \in schema
        BY <1>3, <2>1, NextStepMoves, Idles DEF FindColumn
    <2>2. CASE SchemaSteps[proc[p].step].name \notin schema
        <3>1. proc' = [proc EXCEPT ![p].pc = "addColumn"]
            BY <1>3, <2>2 DEF FindColumn
        <3>2. /\ \A q \in Processes \ {p} : proc'[q] = proc[q]
              /\ proc'[p].pc = "addColumn" /\ proc'[p].items = proc[p].items
            BY <3>1 DEF TypeOK, ProcessStates
        <3> QED
            BY <1>3, <3>2, Idles DEF FindColumn
    <2> QED
        BY <2>1, <2>2
<1>4. CASE AddColumn(p)
    BY <1>4, NextStepMoves, Idles, FailKeeps DEF AddColumn
<1>5. CASE Crash(p)
    BY <1>5, GotoMoves, Idles DEF Crash
<1> QED
    BY <1>1, <1>2, <1>3, <1>4, <1>5

LEMMA ReadCatalogKeeps ==
    ASSUME MigrationInv, NEW p \in Processes, ReadCatalog(p)
    PROVE  DataInv' /\ \A q \in Processes : ProcInv(q)'
<1> USE DEF MigrationInv
<1>1. CASE Unnamed = {}
    <2>1. Unmoved = {}
        BY <1>1 DEF Unmoved, Unnamed, DataInv, NamesAreKept
    <2> QED
        BY <1>1, <2>1, GotoMoves, DataStays, Moves DEF ReadCatalog, Copied
<1>2. CASE Unnamed # {}
    <2>1. proc' = [proc EXCEPT ![p].pc = "catalogWrite", ![p].keys = {row[r].key : r \in Unnamed}]
        BY <1>2 DEF ReadCatalog
    <2>2. /\ \A q \in Processes \ {p} : proc'[q] = proc[q]
          /\ proc'[p].pc = "catalogWrite" /\ proc'[p].items = proc[p].items
        BY <2>1 DEF TypeOK, ProcessStates
    <2> QED
        BY <2>2, Idles DEF ReadCatalog
<1> QED
    BY <1>1, <1>2

LEMMA AfterMigrationStages ==
    \A p \in Processes : AfterMigration(p) \in {"down", "serving", "pruneOutputs"}
BY DEF AfterMigration

\* The outputs that are not copied yet are all there to be read.
LEMMA ReadOutputsKeeps ==
    ASSUME MigrationInv, NEW p \in Processes, ReadOutputs(p)
    PROVE  DataInv' /\ \A q \in Processes : ProcInv(q)'
<1> USE DEF MigrationInv
<1>1. Unmoved = {}
    BY DEF ReadOutputs, ProcInv, NamesAreMoved
<1>2. \A r \in Missing : r \in Results /\ row[r].legacy = Printed[r] /\ Printed[r] # Nothing
    BY PrintedType DEF Missing, DataInv, OutputsAreKept, TypeOK
<1>3. DataInv' /\ Missing' = Missing /\ Unmoved' = Unmoved
    BY DataStays DEF ReadOutputs
<1>4. CASE HasLegacyColumns
    <2> DEFINE items == {[id |-> r, text |-> row[r].legacy] : r \in Unconverted}
    <2>1. proc' = [proc EXCEPT ![p].pc = "outputsWrite", ![p].items = items]
        BY <1>4 DEF ReadOutputs
    <2> HIDE DEF items
    <2>2. /\ \A q \in Processes \ {p} : proc'[q] = proc[q]
          /\ proc'[p].pc = "outputsWrite" /\ proc'[p].items = items
        BY <2>1 DEF TypeOK, ProcessStates
    <2>3. \A i \in items : i.text = Printed[i.id]
        BY DEF items, Unconverted, DataInv, LegacyIsFaithful
    <2>4. \A r \in Missing : \E i \in items : i.id = r
        <3> TAKE r \in Missing
        <3>1. r \in Unconverted
            BY <1>2 DEF Unconverted, Missing
        <3>2. [id |-> r, text |-> row[r].legacy] \in items
            BY <3>1 DEF items
        <3> QED
            BY <3>2
    <2>5. ProcInv(p)'
        BY <1>1, <1>3, <2>2, <2>3, <2>4
        DEF ProcInv, ItemsAreFaithful, ItemsAreComplete, OutputsAreCopied, NamesAreMoved, Copied
    <2>6. ASSUME NEW q \in Processes, q # p PROVE ProcInv(q)'
        BY <1>3, <2>2, <2>6, Waits
    <2> QED
        BY <1>3, <2>5, <2>6
<1>5. CASE ~ HasLegacyColumns
    <2>1. Missing = {}
        BY <1>2, <1>5 DEF Missing, HasLegacyColumns, DataInv, LegacyNeedsColumns
    <2> QED
        BY <1>1, <1>3, <1>5, <2>1, GotoMoves, Moves, AfterMigrationStages DEF ReadOutputs
<1> QED
    BY <1>4, <1>5

LEMMA ReadInlineKeeps ==
    ASSUME MigrationInv, NEW p \in Processes, ReadInline(p)
    PROVE  DataInv' /\ \A q \in Processes : ProcInv(q)'
<1> USE DEF MigrationInv
<1>1. Unmoved = {} /\ Missing = {}
    BY DEF ReadInline, ProcInv, NamesAreMoved, OutputsAreCopied, Copied
<1>2. DataInv' /\ Missing' = Missing /\ Unmoved' = Unmoved
    BY DataStays DEF ReadInline
<1>3. CASE Inline = {}
    BY <1>1, <1>2, <1>3, GotoMoves, Moves DEF ReadInline
<1>4. CASE Inline # {}
    <2> DEFINE items == {[id |-> r, text |-> out[r].inline] : r \in Inline}
    <2>1. proc' = [proc EXCEPT ![p].pc = "inlineWrite", ![p].items = items]
        BY <1>4 DEF ReadInline
    <2> HIDE DEF items
    <2>2. /\ \A q \in Processes \ {p} : proc'[q] = proc[q]
          /\ proc'[p].pc = "inlineWrite" /\ proc'[p].items = items
        BY <2>1 DEF TypeOK, ProcessStates
    <2>3. \A r \in Inline : out[r].inline = Printed[r]
        BY DEF Inline, DataInv, OutputsAreFaithful, OutputRowIsFaithful, Nothing
    <2>4. \A i \in items : i.text = Printed[i.id]
        BY <2>3 DEF items
    <2>5. ProcInv(p)'
        BY <1>1, <1>2, <2>2, <2>4
        DEF ProcInv, ItemsAreFaithful, ItemsAreComplete, OutputsAreCopied, NamesAreMoved
    <2>6. ASSUME NEW q \in Processes, q # p PROVE ProcInv(q)'
        BY <1>2, <2>2, <2>6, Waits
    <2> QED
        BY <1>2, <2>5, <2>6
<1> QED
    BY <1>3, <1>4

LEMMA WriteCatalogKeeps ==
    ASSUME MigrationInv, NEW p \in Processes, WriteCatalog(p)
    PROVE  DataInv' /\ \A q \in Processes : ProcInv(q)'
<1> USE DEF MigrationInv
<1>1. CASE \A r \in Unnamed : row[r].key \in tests \cup proc[p].keys
    <2>1. /\ tests' = tests \cup proc[p].keys
          /\ row' = [r \in Results |-> Named(r)]
          /\ UNCHANGED <<schema, results, outputs, out, blobs>>
          /\ Goto(p, "outputsRead")
        BY <1>1 DEF WriteCatalog
    <2>2. results \subseteq Results
        BY DEF TypeOK
    <2>3. \A r \in results :
            /\ row'[r].key = NoKey /\ row'[r].testId = KeyOf[r] /\ KeyOf[r] \in tests'
            /\ row'[r].legacy = row[r].legacy
        <3> TAKE r \in results
        <3>1. row'[r] = Named(r) /\ row[r] \in Rows
            BY <2>1, <2>2 DEF TypeOK
        <3>2. CASE row[r].key = KeyOf[r] /\ row[r].testId = NoKey
            <4>1. r \in Unnamed
                BY <2>2, <3>2, KeysType, MigrationAssumption DEF Unnamed
            <4>2. row'[r] = [row[r] EXCEPT !.testId = row[r].key, !.key = NoKey]
                BY <3>1, <4>1 DEF Named
            <4>3. KeyOf[r] \in tests'
                BY <1>1, <2>1, <3>2, <4>1
            <4> QED
                BY <3>1, <3>2, <4>2, <4>3 DEF Rows
        <3>3. CASE row[r].key = NoKey /\ row[r].testId = KeyOf[r] /\ KeyOf[r] \in tests
            BY <2>1, <3>1, <3>3 DEF Named, Unnamed
        <3> QED
            BY <3>2, <3>3 DEF DataInv, NamesAreKept
    <2>4. DataInv'
        BY <2>1, <2>3 DEF DataInv, NamesAreKept, LegacyIsFaithful, OutputsAreFaithful,
                          OutputRowIsFaithful, OutputsAreKept, LegacyNeedsColumns
    <2>5. Missing' = Missing /\ Unmoved' = {}
        BY <2>1, <2>3 DEF Missing, Unmoved
    <2> QED
        BY <2>1, <2>4, <2>5, GotoMoves, Moves DEF Copied
<1>2. CASE ~ \A r \in Unnamed : row[r].key \in tests \cup proc[p].keys
    BY <1>2, FailKeeps DEF WriteCatalog
<1> QED
    BY <1>1, <1>2

LEMMA ReadTextIsFaithful ==
    ASSUME NEW p \in Processes, ItemsAreFaithful(p), NEW r, \E i \in proc[p].items : i.id = r
    PROVE  ReadText(proc[p].items, r) = Printed[r]
BY DEF ItemsAreFaithful, ReadText

LEMMA ItemTextsAreStored ==
    ASSUME NEW p \in Processes, ItemsAreFaithful(p), NEW r, \E i \in proc[p].items : i.id = r
    PROVE  TextsIn(Printed[r]) \subseteq UNION {TextsIn(i.text) : i \in proc[p].items}
<1>1. PICK i \in proc[p].items : i.id = r
    OBVIOUS
<1>2. i.text = Printed[r]
    BY <1>1 DEF ItemsAreFaithful
<1> QED
    BY <1>1, <1>2

\* Whoever copies first copies all; the other one's statements are refused.
LEMMA WriteOutputsKeeps ==
    ASSUME MigrationInv, NEW p \in Processes, WriteOutputs(p)
    PROVE  DataInv' /\ \A q \in Processes : ProcInv(q)'
<1> USE DEF MigrationInv
<1> DEFINE items == proc[p].items
<1>1. CASE \A i \in items : i.id \in results \ outputs
    <2>1. /\ outputs' = outputs \cup {i.id : i \in items}
          /\ out' = [r \in Results |->
                       IF \E i \in items : i.id = r
                       THEN [inline |-> Nothing, blob |-> ReadText(items, r)]
                       ELSE out[r]]
          /\ blobs' = blobs \cup UNION {TextsIn(i.text) : i \in items}
          /\ Goto(p, "inlineRead")
          /\ UNCHANGED <<schema, results, row, tests>>
        BY <1>1 DEF WriteOutputs
    <2>2. ProcInv(p) /\ ItemsAreFaithful(p) /\ results \subseteq Results /\ outputs \subseteq results
        BY DEF ProcInv, TypeOK
    <2>3. \A r \in outputs' : OutputRowIsFaithful(r)'
        <3> TAKE r \in outputs'
        <3>1. r \in Results
            BY <1>1, <2>1, <2>2
        <3>2. CASE \E i \in items : i.id = r
            <4>1. out'[r] = [inline |-> Nothing, blob |-> Printed[r]]
                BY <2>1, <2>2, <3>1, <3>2, ReadTextIsFaithful
            <4>2. TextsIn(Printed[r]) \subseteq blobs'
                BY <2>1, <2>2, <3>2, ItemTextsAreStored
            <4> QED
                BY <4>1, <4>2 DEF OutputRowIsFaithful
        <3>3. CASE ~ \E i \in items : i.id = r
            <4>1. r \in outputs /\ out'[r] = out[r] /\ blobs \subseteq blobs'
                BY <2>1, <3>1, <3>3
            <4> QED
                BY <4>1 DEF DataInv, OutputsAreFaithful, OutputRowIsFaithful
        <3> QED
            BY <3>2, <3>3
    <2>4. DataInv'
        BY <2>1, <2>3 DEF DataInv, NamesAreKept, LegacyIsFaithful, OutputsAreFaithful,
                          OutputsAreKept, LegacyNeedsColumns
    <2>5. Missing' = {}
        <3>1. \A r \in Missing : \E i \in items : i.id = r
            BY <1>1, <2>2 DEF ProcInv, ItemsAreComplete, WriteOutputs
        <3> QED
            BY <2>1, <3>1 DEF Missing
    <2>6. Unmoved' = Unmoved /\ Unmoved = {}
        BY <2>1, <2>2 DEF Unmoved, ProcInv, NamesAreMoved, WriteOutputs
    <2> QED
        BY <2>1, <2>4, <2>5, <2>6, GotoMoves, Moves
<1>2. CASE ~ \A i \in items : i.id \in results \ outputs
    BY <1>2, FailKeeps DEF WriteOutputs
<1> QED
    BY <1>1, <1>2

LEMMA WriteInlineKeeps ==
    ASSUME MigrationInv, NEW p \in Processes, WriteInline(p)
    PROVE  DataInv' /\ \A q \in Processes : ProcInv(q)'
<1> USE DEF MigrationInv
<1> DEFINE items == proc[p].items
<1>1. /\ out' = [r \in Results |-> Referenced(r, items)]
      /\ blobs' = blobs \cup UNION {TextsIn(i.text) : i \in items}
      /\ Goto(p, "clear")
      /\ UNCHANGED <<schema, results, row, outputs, tests>>
    BY DEF WriteInline
<1>2. ProcInv(p) /\ ItemsAreFaithful(p) /\ results \subseteq Results /\ outputs \subseteq results
    BY DEF ProcInv, TypeOK
<1>3. \A r \in outputs : OutputRowIsFaithful(r)'
    <2> TAKE r \in outputs
    <2>1. out'[r] = Referenced(r, items)
        BY <1>1, <1>2
    <2>2. CASE \E i \in items : i.id = r
        <3>1. out'[r] = [inline |-> Nothing, blob |-> Printed[r]]
            BY <1>2, <2>1, <2>2, ReadTextIsFaithful DEF Referenced
        <3>2. TextsIn(Printed[r]) \subseteq blobs'
            BY <1>1, <1>2, <2>2, ItemTextsAreStored
        <3> QED
            BY <3>1, <3>2 DEF OutputRowIsFaithful
    <2>3. CASE ~ \E i \in items : i.id = r
        <3>1. out'[r] = out[r] /\ blobs \subseteq blobs'
            BY <1>1, <2>1, <2>3 DEF Referenced
        <3> QED
            BY <3>1 DEF DataInv, OutputsAreFaithful, OutputRowIsFaithful
    <2> QED
        BY <2>2, <2>3
<1>4. DataInv'
    BY <1>1, <1>3 DEF DataInv, NamesAreKept, LegacyIsFaithful, OutputsAreFaithful,
                      OutputsAreKept, LegacyNeedsColumns
<1>5. Missing' = {} /\ Missing = {} /\ Unmoved' = Unmoved /\ Unmoved = {}
    BY <1>1, <1>2 DEF Missing, Unmoved, ProcInv, NamesAreMoved, OutputsAreCopied, WriteInline, Copied
<1> QED
    BY <1>1, <1>4, <1>5, GotoMoves, Moves

LEMMA ClearKeeps ==
    ASSUME MigrationInv, NEW p \in Processes, ClearLegacyOutputs(p)
    PROVE  DataInv' /\ \A q \in Processes : ProcInv(q)'
<1> USE DEF MigrationInv
<1>1. /\ row' = Cleared(results)
      /\ Goto(p, AfterMigration(p))
      /\ UNCHANGED <<schema, results, outputs, out, blobs, tests>>
    BY DEF ClearLegacyOutputs
<1>2. results \subseteq Results /\ ProcInv(p)
    BY DEF TypeOK
<1>3. \A r \in results : /\ row'[r].key = row[r].key /\ row'[r].testId = row[r].testId
                         /\ row'[r].legacy = Nothing
    BY <1>1, <1>2 DEF Cleared, TypeOK, Rows
<1>4. Missing = {} /\ Unmoved = {}
    BY <1>2 DEF ProcInv, OutputsAreCopied, NamesAreMoved, ClearLegacyOutputs, Copied
<1>5. DataInv'
    BY <1>1, <1>3, <1>4
    DEF Missing, DataInv, NamesAreKept, LegacyIsFaithful, OutputsAreFaithful,
        OutputRowIsFaithful, OutputsAreKept, LegacyNeedsColumns
<1>6. Missing' = Missing /\ Unmoved' = Unmoved
    BY <1>1, <1>3 DEF Missing, Unmoved
<1> QED
    BY <1>1, <1>4, <1>5, <1>6, GotoMoves, Moves, AfterMigrationStages

\* A prune takes from old results only.
LEMMA PruneKeeps ==
    ASSUME MigrationInv, NEW p \in Processes, PruneOutputs(p) \/ PruneLegacyOutputs(p)
    PROVE  DataInv' /\ \A q \in Processes : ProcInv(q)'
<1> USE DEF MigrationInv
<1>1. results \subseteq Results /\ outputs \subseteq results /\ ProcInv(p)
    BY DEF TypeOK
<1>2. Missing = {} /\ Unmoved = {}
    BY <1>1 DEF ProcInv, OutputsAreCopied, NamesAreMoved, PruneOutputs, PruneLegacyOutputs, Copied
<1>3. CASE PruneOutputs(p)
    <2>1. /\ outputs' = outputs \ Prunable /\ Goto(p, "pruneBlobs")
          /\ UNCHANGED <<schema, results, row, blobs, tests>>
        BY <1>3 DEF PruneOutputs
    <2>2. \A r \in outputs' : r \in outputs /\ out'[r] = out[r]
        BY <1>1, <1>3, <2>1 DEF PruneOutputs
    <2>3. DataInv'
        BY <2>1, <2>2 DEF Prunable, DataInv, NamesAreKept, LegacyIsFaithful, OutputsAreFaithful,
                          OutputRowIsFaithful, OutputsAreKept, LegacyNeedsColumns
    <2>4. Missing' = Missing /\ Unmoved' = Unmoved
        BY <2>1 DEF Missing, Unmoved, Prunable
    <2> QED
        BY <1>2, <2>1, <2>3, <2>4, GotoMoves, Moves
<1>4. CASE PruneLegacyOutputs(p)
    <2>1. /\ row' = (IF HasLegacyColumns THEN Cleared(results \cap Old) ELSE row) /\ Goto(p, "down")
          /\ UNCHANGED <<schema, results, outputs, out, blobs, tests>>
        BY <1>4 DEF PruneLegacyOutputs
    <2>2. \A r \in results : /\ row'[r].key = row[r].key /\ row'[r].testId = row[r].testId
                             /\ row'[r].legacy \in {row[r].legacy, Nothing}
                             /\ r \notin Old => row'[r].legacy = row[r].legacy
        BY <1>1, <2>1 DEF Cleared, TypeOK, Rows
    <2>3. DataInv'
        BY <2>1, <2>2 DEF DataInv, NamesAreKept, LegacyIsFaithful, OutputsAreFaithful,
                          OutputRowIsFaithful, OutputsAreKept, LegacyNeedsColumns
    <2>4. Missing' = Missing /\ Unmoved' = Unmoved
        BY <2>1, <2>2 DEF Missing, Unmoved
    <2> QED
        BY <1>2, <2>1, <2>3, <2>4, GotoMoves, Moves DEF Copied
<1> QED
    BY <1>3, <1>4

\* The blobs that rows refer to are not orphans.
LEMMA DeleteBlobsKeeps ==
    ASSUME MigrationInv, NEW p \in Processes, DeleteOrphanedOutputBlobs(p)
    PROVE  DataInv' /\ \A q \in Processes : ProcInv(q)'
<1> USE DEF MigrationInv
<1>1. /\ blobs' = blobs \cap UNION {TextsIn(out[r].blob) : r \in outputs}
      /\ Goto(p, "pruneLegacy")
      /\ UNCHANGED <<schema, results, row, outputs, out, tests>>
    BY DEF DeleteOrphanedOutputBlobs
<1>2. \A r \in outputs : OutputRowIsFaithful(r)'
    BY <1>1 DEF DataInv, OutputsAreFaithful, OutputRowIsFaithful
<1>3. DataInv'
    BY <1>1, <1>2 DEF DataInv, NamesAreKept, LegacyIsFaithful, OutputsAreFaithful,
                      OutputsAreKept, LegacyNeedsColumns
<1>4. Missing = {} /\ Unmoved = {}
    BY DEF ProcInv, OutputsAreCopied, NamesAreMoved, DeleteOrphanedOutputBlobs, Copied
<1>5. Missing' = Missing /\ Unmoved' = Unmoved
    BY <1>1 DEF Missing, Unmoved
<1> QED
    BY <1>1, <1>3, <1>4, <1>5, GotoMoves, Moves

\* The results of the servers come with their outputs, and with the names of
\* their tests unless they are late ones.
LEMMA CreateKeeps ==
    ASSUME LateColumns = "inline", MigrationInv, NEW r \in Results,
           CreateRun(r) \/ CreateLateRun(r)
    PROVE  DataInv' /\ \A q \in Processes : ProcInv(q)'
<1> USE DEF MigrationInv
<1>1. /\ r \in Results \ results
      /\ results' = results \cup {r} /\ outputs' = outputs \cup {r}
      /\ results \subseteq Results /\ outputs \subseteq results
      /\ blobs \subseteq blobs' /\ tests \subseteq tests'
      /\ UNCHANGED <<schema, proc>>
    BY DEF CreateRun, CreateLateRun, TypeOK
<1>2. /\ \A q \in results : row'[q] = row[q]
      /\ \A q \in outputs : out'[q] = out[q]
    BY <1>1 DEF CreateRun, CreateLateRun, TypeOK
<1>3. /\ row'[r].legacy = Nothing
      /\ \/ row'[r].key = KeyOf[r] /\ row'[r].testId = NoKey /\ r \in Late
         \/ row'[r].key = NoKey /\ row'[r].testId = KeyOf[r] /\ KeyOf[r] \in tests'
    <2>1. CASE CreateRun(r)
        BY <1>1, <2>1 DEF CreateRun, Absent, TypeOK
    <2>2. CASE CreateLateRun(r)
        <3>1. row'[r] = OldRow(r, FALSE) /\ r \in Late
            BY <1>1, <2>2 DEF CreateLateRun, TypeOK
        <3> QED
            BY <3>1 DEF OldRow
    <2> QED
        BY <2>1, <2>2
<1>4. OutputRowIsFaithful(r)'
    BY <1>1 DEF CreateRun, CreateLateRun, OutputRowIsFaithful, NoOutput, TypeOK
<1>5. NamesAreKept' /\ LegacyIsFaithful' /\ OutputsAreKept' /\ LegacyNeedsColumns'
    BY <1>1, <1>2, <1>3
    DEF DataInv, NamesAreKept, LegacyIsFaithful, OutputsAreKept, LegacyNeedsColumns
<1>6. OutputsAreFaithful'
    BY <1>1, <1>2, <1>4 DEF DataInv, OutputsAreFaithful, OutputRowIsFaithful
<1>7. Missing' \subseteq Missing /\ Unmoved' \subseteq Unmoved
    BY <1>1, <1>2, <1>3 DEF Missing, Unmoved
<1> QED
    BY <1>1, <1>5, <1>6, <1>7, Waits DEF DataInv

LEMMA DeleteKeeps ==
    ASSUME MigrationInv, NEW r \in Results, DeleteRun(r)
    PROVE  DataInv' /\ \A q \in Processes : ProcInv(q)'
<1> USE DEF MigrationInv
<1>1. /\ results' = results \ {r} /\ outputs' = outputs \ {r}
      /\ results \subseteq Results /\ outputs \subseteq results
      /\ UNCHANGED <<schema, blobs, tests, proc>>
    BY DEF DeleteRun, TypeOK
<1>2. \A q \in results' : row'[q] = row[q] /\ out'[q] = out[q]
    BY <1>1 DEF DeleteRun, TypeOK
<1>3. DataInv'
    BY <1>1, <1>2 DEF DataInv, NamesAreKept, LegacyIsFaithful, OutputsAreFaithful,
                      OutputRowIsFaithful, OutputsAreKept, LegacyNeedsColumns
<1>4. Missing' \subseteq Missing /\ Unmoved' \subseteq Unmoved
    BY <1>1, <1>2 DEF Missing, Unmoved
<1> QED
    BY <1>1, <1>3, <1>4, Waits

LEMMA InvStep ==
    ASSUME LateColumns = "inline", MigrationInv, [Next]_vars
    PROVE  MigrationInv'
<1>1. TypeOK'
    BY TypeStep DEF MigrationInv
<1>2. ASSUME NEW p \in Processes, Step(p) \/ Crash(p)
      PROVE  DataInv' /\ \A q \in Processes : ProcInv(q)'
    BY <1>2, SchemaKeeps, ReadCatalogKeeps, WriteCatalogKeeps, ReadOutputsKeeps, WriteOutputsKeeps,
       ReadInlineKeeps, WriteInlineKeeps, ClearKeeps, PruneKeeps, DeleteBlobsKeeps DEF Step
<1>3. ASSUME NEW r \in Results, CreateRun(r) \/ CreateLateRun(r) \/ DeleteRun(r)
      PROVE  DataInv' /\ \A q \in Processes : ProcInv(q)'
    BY <1>3, CreateKeeps, DeleteKeeps
<1>4. CASE UNCHANGED vars
    <2>1. UNCHANGED data /\ UNCHANGED schema /\ UNCHANGED proc
        BY <1>4 DEF vars
    <2> QED
        BY <1>1, <2>1, DataStays, Waits DEF MigrationInv
<1> QED
    BY <1>1, <1>2, <1>3, <1>4 DEF Next, MigrationInv

\* Names and outputs are kept somewhere, and each process has done its part,
\* as long as the earlier version keeps its outputs in test_result_outputs.
THEOREM MigrationKeepsInv == ASSUME LateColumns = "inline" PROVE Spec => []MigrationInv
<1>1. MigrationInv /\ [Next]_vars => MigrationInv'
    BY InvStep
<1> QED
    BY InvInit, <1>1, PTL DEF Spec

-----------------------------------------------------------------------------
(* What is shown.                                                          *)

LEMMA ShownIsPrinted ==
    ASSUME MigrationInv, NEW r \in outputs
    PROVE  ShownText(r) = Printed[r]
<1>1. Printed[r] \in [Streams -> Texts \cup {NoText}] /\ blobs \subseteq Texts
    BY PrintedType DEF MigrationInv, TypeOK, Outputs
<1>2. NoText \notin blobs
    BY <1>1, MigrationAssumption
<1>3. \A s \in Streams :
        (IF out[r].blob[s] \in blobs THEN out[r].blob[s] ELSE out[r].inline[s]) = Printed[r][s]
    <2>1. CASE out[r].inline = Printed[r] /\ out[r].blob = Nothing
        BY <1>2, <2>1 DEF Nothing
    <2>2. CASE out[r].inline = Nothing /\ out[r].blob = Printed[r] /\ TextsIn(Printed[r]) \subseteq blobs
        BY <1>2, <2>2 DEF Nothing, TextsIn
    <2> QED
        BY <2>1, <2>2 DEF MigrationInv, DataInv, OutputsAreFaithful, OutputRowIsFaithful
<1>4. ShownText(r) = [s \in Streams |-> Printed[r][s]]
    BY <1>3 DEF ShownText
<1> QED
    BY <1>1, <1>4

LEMMA ServedInv == MigrationInv => ServedAfterMigration
<1> SUFFICES ASSUME MigrationInv,
                    NEW p \in Processes,
                    proc[p].pc \in {"serving", "pruneOutputs", "pruneBlobs", "pruneLegacy"},
                    NEW r \in results \ Late
             PROVE  Shows(r)
    BY DEF ServedAfterMigration
<1>1. Missing = {} /\ Unmoved = {}
    BY DEF MigrationInv, ProcInv, OutputsAreCopied, NamesAreMoved, Copied
<1>2. ShownName(r) = KeyOf[r]
    BY <1>1 DEF Unmoved, MigrationInv, DataInv, NamesAreKept, ShownName
<1>3. r \notin Old => ShownText(r) = Printed[r]
    BY <1>1, ShownIsPrinted DEF Missing
<1> QED
    BY <1>2, <1>3 DEF Shows

\* Whoever has migrated the database shows every result in full but for those of
\* Late, whatever the other processes have done to it since.
THEOREM ResultsAreServed == ASSUME LateColumns = "inline" PROVE Spec => []ServedAfterMigration
BY MigrationKeepsInv, ServedInv, PTL

-----------------------------------------------------------------------------
(* What is stored: it depends on nothing but the set of results.           *)

Entry(r) == [id |-> r, name |-> KeyOf[r], text |-> IF r \in Old THEN Nothing ELSE Printed[r]]

LEMMA NameIsStored ==
    ASSUME MigrationInv, NEW r \in results
    PROVE  StoredName(r) = KeyOf[r]
<1>1. KeyOf[r] # NoKey
    BY KeysType, MigrationAssumption DEF MigrationInv, TypeOK
<1> QED
    BY <1>1 DEF MigrationInv, DataInv, NamesAreKept, StoredName, ShownName

LEMMA TextIsStored ==
    ASSUME MigrationInv, NEW r \in results \ Old
    PROVE  StoredText(r) = Printed[r]
<1>1. Printed[r] \in [Streams -> Texts \cup {NoText}] /\ Printed[r] # Nothing
    BY PrintedType DEF MigrationInv, TypeOK, Outputs
<1>2. \A s \in Streams :
        (IF row[r].legacy[s] # NoText THEN row[r].legacy[s] ELSE ShownText(r)[s]) = Printed[r][s]
    <2>1. CASE row[r].legacy = Nothing
        <3>1. r \in outputs
            BY <1>1, <2>1 DEF MigrationInv, DataInv, OutputsAreKept
        <3> QED
            BY <2>1, <3>1, ShownIsPrinted DEF Nothing
    <2>2. CASE row[r].legacy = Printed[r]
        <3> TAKE s \in Streams
        <3>1. CASE r \in outputs
            BY <2>2, <3>1, ShownIsPrinted
        <3>2. CASE r \notin outputs
            <4>1. ShownText(r)[s] = NoText
                BY <3>2 DEF ShownText
            <4> QED
                BY <2>2, <4>1
        <3> QED
            BY <3>1, <3>2
    <2> QED
        BY <2>1, <2>2 DEF MigrationInv, DataInv, LegacyIsFaithful
<1>3. StoredText(r) = [s \in Streams |-> Printed[r][s]]
    BY <1>2 DEF StoredText
<1> QED
    BY <1>1, <1>3

LEMMA StoredIsResults == MigrationInv => Stored = {Entry(r) : r \in results}
<1> SUFFICES ASSUME MigrationInv PROVE Stored = {Entry(r) : r \in results}
    OBVIOUS
<1> DEFINE entry(r) == [id |-> r, name |-> StoredName(r),
                        text |-> IF r \in Old THEN Nothing ELSE StoredText(r)]
<1>1. \A r \in results : entry(r) = Entry(r)
    BY NameIsStored, TextIsStored DEF Entry
<1>2. Stored = {entry(r) : r \in results}
    BY DEF Stored
<1> HIDE DEF entry
<1> QED
    BY <1>1, <1>2

\* No step but those of the servers and of the user adds or deletes results.
LEMMA ResultsChange ==
    ASSUME [Next]_vars
    PROVE  \/ results' \subseteq results
           \/ \E r \in Results \ results : results' = results \cup {r}
<1>1. ASSUME NEW p \in Processes, Step(p) \/ Crash(p) PROVE results' = results
    BY <1>1 DEF Step, Start, CreateTable, FindColumn, AddColumn, ReadCatalog, WriteCatalog,
                ReadOutputs, WriteOutputs, ReadInline, WriteInline, ClearLegacyOutputs,
                PruneOutputs, DeleteOrphanedOutputBlobs, PruneLegacyOutputs, Crash, Fail, data
<1>2. ASSUME NEW r \in Results, CreateRun(r) \/ CreateLateRun(r)
      PROVE  r \in Results \ results /\ results' = results \cup {r}
    BY <1>2 DEF CreateRun, CreateLateRun
<1>3. ASSUME NEW r \in Results, DeleteRun(r) PROVE results' \subseteq results
    BY <1>3 DEF DeleteRun
<1>4. CASE UNCHANGED vars
    BY <1>4 DEF vars, data
<1> QED
    BY <1>1, <1>2, <1>3, <1>4 DEF Next

LEMMA StoreInit == MigrationInv => Store!Init
<1> SUFFICES ASSUME MigrationInv PROVE Store!Init
    OBVIOUS
<1>1. \A e \in Stored : e = Entry(e.id)
    BY StoredIsResults DEF Entry
<1> QED
    BY <1>1 DEF Store!Init

LEMMA StoreStep ==
    ASSUME MigrationInv, MigrationInv', [Next]_vars
    PROVE  [Store!Next]_Stored
<1>1. Stored = {Entry(r) : r \in results}
    BY StoredIsResults
<1>2. Stored' = {Entry(r) : r \in results'}
    <2>1. (Stored = {Entry(r) : r \in results})'
        BY StoredIsResults, PTL
    <2> QED
        BY <2>1 DEF Entry
<1>3. CASE results' \subseteq results
    BY <1>1, <1>2, <1>3 DEF Store!Next, Store!Delete
<1>4. ASSUME NEW r \in Results \ results, results' = results \cup {r} PROVE Store!Next
    <2>1. Stored' = Stored \cup {Entry(r)}
        BY <1>1, <1>2, <1>4
    <2>2. Entry(r).id = r /\ \A e \in Stored : e.id # r
        BY <1>1, <1>4 DEF Entry
    <2>3. r \notin Store!IdsOf(Stored) /\ Entry(r) \in Stored' \ Stored
        BY <2>1, <2>2 DEF Store!IdsOf
    <2> QED
        BY <2>1, <2>2, <2>3 DEF Store!Next, Store!Add
<1> QED
    BY <1>3, <1>4, ResultsChange

\* However many processes migrate, and wherever they are stopped, to migrate
\* changes nothing in the set of results that the database stands for.
THEOREM MigrationImplementsResultStore ==
    ASSUME LateColumns = "inline" PROVE Spec => ImplementsResultStore
<1>1. Init => Store!Init
    BY InvInit, StoreInit
<1>2. MigrationInv /\ MigrationInv' /\ [Next]_vars => [Store!Next]_Stored
    BY StoreStep
<1> QED
    BY <1>1, <1>2, MigrationKeepsInv, PTL DEF Spec, ImplementsResultStore, Store!Spec
=============================================================================
