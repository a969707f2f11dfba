----------------------------- MODULE Migration ------------------------------
(***************************************************************************)
(* SQLStore.Migrate: every server, prune and compaction begins with it,    *)
(* each in a process of its own and perhaps at the same time, and brings a *)
(* database that an earlier version of testrr has written to the present   *)
(* schema.  It creates what is missing, moves the names of tests into the  *)
(* table tests, copies the outputs that test_results once held to          *)
(* test_result_outputs, replaces the outputs test_result_outputs once held *)
(* by references to output_blobs, and clears what it has copied.  Each of  *)
(* these steps reads first and then writes in another transaction.         *)
(*                                                                         *)
(* A transaction holds SQLite's write lock from its first statement, which *)
(* writes, and one that does not commit leaves nothing behind: it is one   *)
(* step here.  A text stands for its bytes and for its SHA-256, and the    *)
(* key of a test for all columns that name it, and for their hash.         *)
(***************************************************************************)
EXTENDS Integers, Sequences, FiniteSets

CONSTANTS
    Processes,      \* processes that migrate
    Server,         \* the one that serves afterwards
    Pruners,        \* those that prune afterwards; the others just end
    Legacy,         \* test results an earlier version has left
    New,            \* test results the server may record
    Late,           \* those an earlier version may still record meanwhile
    LateColumns,    \* where it puts their outputs: "inline" or "legacy"
    Old,            \* legacy results of runs that are old enough to be pruned
    KeyOf,          \* the key of the test of each result
    Printed,        \* what each result's test printed
    NoKey,          \* the empty key
    Streams,        \* failure output, stdout and stderr
    Texts,
    NoText,         \* the empty text, or NULL
    BlobColumns,    \* the columns ensureOutputBlobSchema adds, in its order
    Dialect,        \* "sqlite" or "postgres"
    MaxFaults       \* bound on crashes and failing statements

Results == Legacy \cup New \cup Late
Keys == {KeyOf[r] : r \in Results}
Outputs == [Streams -> Texts \cup {NoText}]
Nothing == [s \in Streams |-> NoText]

ASSUME MigrationAssumption ==
    /\ Server \in Processes
    /\ NoText \notin Texts
    /\ NoKey \notin Keys
    /\ Printed \in [Results -> Outputs]
    /\ \A r \in Results : Printed[r] # Nothing
    /\ Legacy \cap New = {} /\ Legacy \cap Late = {} /\ New \cap Late = {}
    /\ Old \subseteq Legacy
    /\ LateColumns \in {"inline", "legacy"}
    /\ MaxFaults \in Nat

ASSUME BlobColumnsAssumption == BlobColumns \in Seq(STRING)

VARIABLES
    schema,     \* the tables and columns that the database has
    results,    \* ids of the rows of test_results
    row,        \* their columns: key, testId, and the legacy outputs
    outputs,    \* ids of those that have a row in test_result_outputs
    out,        \* its columns: the inline outputs, and the ids of blobs
    blobs,      \* rows of output_blobs
    tests,      \* rows of tests
    proc,       \* the processes
    faults      \* crashes and failing statements so far

data == <<results, row, outputs, out, blobs, tests>>
vars == <<schema, data, proc, faults>>

-----------------------------------------------------------------------------
(* The schema.  Definitions whose name begins with Bad are wrong variants   *)
(* of the one that follows them: each shows that a property below notices   *)
(* the mistake.                                                             *)

\* A table is created with IF NOT EXISTS; a column is looked for, then added.
\* The type is that of the statement which PostgreSQL has most to say about.
Table(name, type) == [kind |-> "table", name |-> name, type |-> type]
Column(name, type) == [kind |-> "column", name |-> name, type |-> type]

PostgresTypes == {"TEXT", "INTEGER", "BIGINT", "BYTEA"}
Accepts(type) == Dialect = "postgres" => type \in PostgresTypes

\* postgresMigrations and sqliteMigrations, ensureOutputBlobSchema and
\* ensureNormalizedTestCatalog.
SchemaSteps ==
    <<Table("test_result_outputs", IF Dialect = "postgres" THEN "BYTEA" ELSE "BLOB"),
      Table("output_blobs", "BLOB")>>
    \o [i \in DOMAIN BlobColumns |-> Column(BlobColumns[i], "TEXT")]
    \o <<Table("tests", "TEXT"), Column("test_id", "TEXT")>>

\* The columns that test_results had for outputs, and has in old databases.
LegacyColumns == "failure_output"

Schemas == {{LegacyColumns}, {LegacyColumns, "test_result_outputs"}, {"test_result_outputs"}}

-----------------------------------------------------------------------------
Absent == [key |-> NoKey, testId |-> NoKey, legacy |-> Nothing]
NoOutput == [inline |-> Nothing, blob |-> Nothing]
Down == [pc |-> "down", step |-> 1, keys |-> {}, items |-> {}]

OldRow(r, legacy) ==
    [key |-> KeyOf[r], testId |-> NoKey, legacy |-> IF legacy THEN Printed[r] ELSE Nothing]

\* An earlier version has left outputs in test_results, or has moved some or
\* all of them to test_result_outputs, perhaps without clearing them.
Init ==
    /\ schema \in Schemas
    /\ results = Legacy
    /\ \E inColumns, inRows \in SUBSET Legacy :
          /\ inColumns \cup inRows = Legacy
          /\ LegacyColumns \notin schema => inColumns = {}
          /\ "test_result_outputs" \notin schema => inRows = {}
          /\ row = [r \in Results |-> IF r \in Legacy THEN OldRow(r, r \in inColumns) ELSE Absent]
          /\ outputs = inRows
          /\ out = [r \in Results |-> IF r \in inRows THEN [NoOutput EXCEPT !.inline = Printed[r]]
                                      ELSE NoOutput]
    /\ blobs = {}
    /\ tests = {}
    /\ proc = [p \in Processes |-> Down]
    /\ faults = 0

-----------------------------------------------------------------------------
Goto(p, pc) == proc' = [proc EXCEPT ![p] = [Down EXCEPT !.pc = pc]]

\* A statement is refused, Migrate returns its error and the process ends.
Fail(p) == Goto(p, "down") /\ UNCHANGED <<schema, data, faults>>

\* A container, the timer or a user starts the process.
Start(p) ==
    /\ proc[p].pc = "down"
    /\ Goto(p, "schema")
    /\ UNCHANGED <<schema, data, faults>>

NextStep(p) ==
    IF proc[p].step = Len(SchemaSteps) THEN Goto(p, "catalogRead")
    ELSE proc' = [proc EXCEPT ![p].pc = "schema", ![p].step = proc[p].step + 1]

CreateTable(p) ==
    LET s == SchemaSteps[proc[p].step] IN
    /\ proc[p].pc = "schema"
    /\ s.kind = "table"
    /\ IF Accepts(s.type)
       THEN /\ schema' = schema \cup {s.name}
            /\ NextStep(p)
            /\ UNCHANGED <<data, faults>>
       ELSE Fail(p)

\* tableHasColumn.
FindColumn(p) ==
    LET s == SchemaSteps[proc[p].step] IN
    /\ proc[p].pc = "schema"
    /\ s.kind = "column"
    /\ IF s.name \in schema THEN NextStep(p)
       ELSE proc' = [proc EXCEPT ![p].pc = "addColumn"]
    /\ UNCHANGED <<schema, data, faults>>

\* ALTER TABLE ADD COLUMN has no IF NOT EXISTS.
AddColumn(p) ==
    LET s == SchemaSteps[proc[p].step] IN
    /\ proc[p].pc = "addColumn"
    /\ IF s.name \in schema THEN Fail(p)
       ELSE /\ schema' = schema \cup {s.name}
            /\ NextStep(p)
            /\ UNCHANGED <<data, faults>>

-----------------------------------------------------------------------------
(* backfillNormalizedTestCatalog.                                          *)

Unnamed == {r \in results : row[r].testId = NoKey /\ row[r].key # NoKey}

ReadCatalog(p) ==
    /\ proc[p].pc = "catalogRead"
    /\ IF Unnamed = {} THEN Goto(p, "outputsRead")
       ELSE proc' = [proc EXCEPT ![p].pc = "catalogWrite",
                                 ![p].keys = {row[r].key : r \in Unnamed}]
    /\ UNCHANGED <<schema, data, faults>>

\* The row a result gets: test_id from the catalogue, and no names any more.
BadNamed(r) == IF r \in results THEN [row[r] EXCEPT !.testId = row[r].key, !.key = NoKey] ELSE row[r]

Named(r) == IF r \in Unnamed THEN [row[r] EXCEPT !.testId = row[r].key, !.key = NoKey] ELSE row[r]

\* The test of a result that was recorded after the read may have no row in
\* tests: then test_id would be NULL, which it must not be.
WriteCatalog(p) ==
    /\ proc[p].pc = "catalogWrite"
    /\ IF \A r \in Unnamed : row[r].key \in tests \cup proc[p].keys
       THEN /\ tests' = tests \cup proc[p].keys
            /\ row' = [r \in Results |-> Named(r)]
            /\ Goto(p, "outputsRead")
            /\ UNCHANGED <<schema, results, outputs, out, blobs, faults>>
       ELSE Fail(p)

-----------------------------------------------------------------------------
(* backfillLegacyTestResultOutputs and backfillLegacyOutputBlobReferences.  *)

BadTextsIn(output) == {output[s] : s \in Streams}
TextsIn(output) == {output[s] : s \in Streams} \ {NoText}

AfterMigration(p) ==
    IF p = Server THEN "serving" ELSE IF p \in Pruners THEN "pruneOutputs" ELSE "down"

BadHasLegacyColumns == LegacyColumns \in schema /\ outputs = {}
HasLegacyColumns == LegacyColumns \in schema

BadUnconverted == {r \in results : row[r].legacy # Nothing}
Unconverted == {r \in results \ outputs : row[r].legacy # Nothing}

ReadOutputs(p) ==
    /\ proc[p].pc = "outputsRead"
    /\ IF HasLegacyColumns
       THEN proc' = [proc EXCEPT ![p].pc = "outputsWrite",
                                 ![p].items = {[id |-> r, text |-> row[r].legacy] : r \in Unconverted}]
       ELSE Goto(p, AfterMigration(p))
    /\ UNCHANGED <<schema, data, faults>>

\* What was read of result r.
ReadText(items, r) == (CHOOSE i \in items : i.id = r).text

\* A row that is there already or whose result has gone is refused.
WriteOutputs(p) ==
    LET items == proc[p].items IN
    /\ proc[p].pc = "outputsWrite"
    /\ IF \A i \in items : i.id \in results \ outputs
       THEN /\ outputs' = outputs \cup {i.id : i \in items}
            /\ out' = [r \in Results |->
                         IF \E i \in items : i.id = r
                         THEN [inline |-> Nothing, blob |-> ReadText(items, r)]
                         ELSE out[r]]
            /\ blobs' = blobs \cup UNION {TextsIn(i.text) : i \in items}
            /\ Goto(p, "inlineRead")
            /\ UNCHANGED <<schema, results, row, tests, faults>>
       ELSE Fail(p)

Inline == {r \in outputs : \E s \in Streams : out[r].blob[s] = NoText /\ out[r].inline[s] # NoText}

ReadInline(p) ==
    /\ proc[p].pc = "inlineRead"
    /\ IF Inline = {} THEN Goto(p, "clear")
       ELSE proc' = [proc EXCEPT ![p].pc = "inlineWrite",
                                 ![p].items = {[id |-> r, text |-> out[r].inline] : r \in Inline}]
    /\ UNCHANGED <<schema, data, faults>>

\* UPDATE, which leaves alone a row that has gone.
BadReferenced(r, items) ==
    IF r \in outputs THEN [inline |-> Nothing,
                           blob |-> IF \E i \in items : i.id = r THEN ReadText(items, r) ELSE Nothing]
    ELSE out[r]

Referenced(r, items) ==
    IF r \in outputs /\ \E i \in items : i.id = r
    THEN [inline |-> Nothing, blob |-> ReadText(items, r)]
    ELSE out[r]

WriteInline(p) ==
    LET items == proc[p].items IN
    /\ proc[p].pc = "inlineWrite"
    /\ blobs' = blobs \cup UNION {TextsIn(i.text) : i \in items}
    /\ out' = [r \in Results |-> Referenced(r, items)]
    /\ Goto(p, "clear")
    /\ UNCHANGED <<schema, results, row, outputs, tests, faults>>

Cleared(R) == [r \in Results |-> IF r \in R THEN [row[r] EXCEPT !.legacy = Nothing] ELSE row[r]]

\* clearLegacyTestResultOutputs: whatever is there, copied or not.
ClearLegacyOutputs(p) ==
    /\ proc[p].pc = "clear"
    /\ row' = Cleared(results)
    /\ Goto(p, AfterMigration(p))
    /\ UNCHANGED <<schema, results, outputs, out, blobs, tests, faults>>

-----------------------------------------------------------------------------
(* PruneTestOutputs, which also clears what has not been copied.           *)

BadPrunable == {r \in outputs \cap Old : out[r].blob # Nothing}
Prunable == outputs \cap Old

PruneOutputs(p) ==
    /\ proc[p].pc = "pruneOutputs"
    /\ outputs' = outputs \ Prunable
    /\ out' = [r \in Results |-> IF r \in Prunable THEN NoOutput ELSE out[r]]
    /\ Goto(p, "pruneBlobs")
    /\ UNCHANGED <<schema, results, row, blobs, tests, faults>>

DeleteOrphanedOutputBlobs(p) ==
    /\ proc[p].pc = "pruneBlobs"
    /\ blobs' = blobs \cap UNION {TextsIn(out[r].blob) : r \in outputs}
    /\ Goto(p, "pruneLegacy")
    /\ UNCHANGED <<schema, results, row, outputs, out, tests, faults>>

PruneLegacyOutputs(p) ==
    /\ proc[p].pc = "pruneLegacy"
    /\ row' = IF HasLegacyColumns THEN Cleared(results \cap Old) ELSE row
    /\ Goto(p, "down")
    /\ UNCHANGED <<schema, results, outputs, out, blobs, tests, faults>>

-----------------------------------------------------------------------------
(* Everybody else.                                                         *)

\* The server records a run of one result.
CreateRun(r) ==
    /\ proc[Server].pc = "serving"
    /\ r \in New \ results
    /\ results' = results \cup {r}
    /\ row' = [row EXCEPT ![r] = [Absent EXCEPT !.testId = KeyOf[r]]]
    /\ outputs' = outputs \cup {r}
    /\ out' = [out EXCEPT ![r] = [NoOutput EXCEPT !.blob = Printed[r]]]
    /\ blobs' = blobs \cup TextsIn(Printed[r])
    /\ tests' = tests \cup {KeyOf[r]}
    /\ UNCHANGED <<schema, proc, faults>>

\* So does the server of an earlier version, which nobody has stopped yet.
CreateLateRun(r) ==
    LET legacy == LateColumns = "legacy" IN
    /\ r \in Late \ results
    /\ (IF legacy THEN LegacyColumns ELSE "test_result_outputs") \in schema
    /\ results' = results \cup {r}
    /\ row' = [row EXCEPT ![r] = OldRow(r, legacy)]
    /\ outputs' = IF legacy THEN outputs ELSE outputs \cup {r}
    /\ out' = IF legacy THEN out ELSE [out EXCEPT ![r] = [NoOutput EXCEPT !.inline = Printed[r]]]
    /\ UNCHANGED <<schema, blobs, tests, proc, faults>>

\* The run of an old result is deleted, and its result and output with it.
DeleteRun(r) ==
    /\ r \in results \cap Old
    /\ results' = results \ {r}
    /\ row' = [row EXCEPT ![r] = Absent]
    /\ outputs' = outputs \ {r}
    /\ out' = [out EXCEPT ![r] = NoOutput]
    /\ UNCHANGED <<schema, blobs, tests, proc, faults>>

\* The process is killed, or a statement fails: SQLITE_BUSY, a full disk.
Crash(p) ==
    /\ proc[p].pc # "down"
    /\ faults < MaxFaults
    /\ faults' = faults + 1
    /\ Goto(p, "down")
    /\ UNCHANGED <<schema, data>>

Step(p) ==
    \/ Start(p)
    \/ CreateTable(p)
    \/ FindColumn(p)
    \/ AddColumn(p)
    \/ ReadCatalog(p)
    \/ WriteCatalog(p)
    \/ ReadOutputs(p)
    \/ WriteOutputs(p)
    \/ ReadInline(p)
    \/ WriteInline(p)
    \/ ClearLegacyOutputs(p)
    \/ PruneOutputs(p)
    \/ DeleteOrphanedOutputBlobs(p)
    \/ PruneLegacyOutputs(p)

Next ==
    \/ \E p \in Processes : Step(p) \/ Crash(p)
    \/ \E r \in Results : CreateRun(r) \/ CreateLateRun(r) \/ DeleteRun(r)

Spec == Init /\ [][Next]_vars

\* Processes are scheduled, systemd restarts a server that failed, and the
\* timer starts a prune every night.
FairSpec == Spec /\ \A p \in Processes : WF_vars(Step(p))

-----------------------------------------------------------------------------
(* Properties.                                                             *)

SchemaNames == {SchemaSteps[i].name : i \in DOMAIN SchemaSteps}
Rows == [key : Keys \cup {NoKey}, testId : Keys \cup {NoKey}, legacy : Outputs]
OutputRows == [inline : Outputs, blob : Outputs]
PCs == {"down", "schema", "addColumn", "catalogRead", "catalogWrite", "outputsRead",
        "outputsWrite", "inlineRead", "inlineWrite", "clear", "serving",
        "pruneOutputs", "pruneBlobs", "pruneLegacy"}
ProcessStates == [pc : PCs, step : DOMAIN SchemaSteps, keys : SUBSET Keys,
                  items : SUBSET [id : Results, text : Outputs]]

\* Every table and process keeps the type the code gives it; no blob is empty.
TypeOK ==
    /\ schema \in SUBSET (SchemaNames \cup {LegacyColumns})
    /\ results \in SUBSET Results
    /\ row \in [Results -> Rows]
    /\ outputs \in SUBSET results
    /\ out \in [Results -> OutputRows]
    /\ blobs \in SUBSET Texts
    /\ tests \in SUBSET Keys
    /\ proc \in [Processes -> ProcessStates]
    /\ faults \in 0 .. MaxFaults

\* What ListRunResults shows of result r: its join with tests, and with
\* output_blobs before the inline column.
ShownName(r) == IF row[r].testId \in tests THEN row[r].testId ELSE NoKey

ShownText(r) ==
    [s \in Streams |->
        IF r \notin outputs THEN NoText
        ELSE IF out[r].blob[s] \in blobs THEN out[r].blob[s] ELSE out[r].inline[s]]

Shows(r) ==
    /\ ShownName(r) = KeyOf[r]
    /\ r \notin Old => ShownText(r) = Printed[r]

\* Once any process has migrated the database, everything that was there before
\* and everything that is recorded by this version is shown in full, even while
\* another process is still at it, is killed, or begins again.  What a server of
\* the earlier version goes on recording (Late) waits for the next migration:
\* until then it may not be shown; ImplementsResultStore says that it is not lost.
ServedAfterMigration ==
    (\E p \in Processes : proc[p].pc \in {"serving", "pruneOutputs", "pruneBlobs", "pruneLegacy"})
        => \A r \in results \ Late : Shows(r)

\* However the processes interleave and wherever they are killed, no result
\* loses or changes its name or what it printed, in whatever place they are
\* kept: Migrate implements no step at all of a plain set of results.
StoredName(r) == IF row[r].key # NoKey THEN row[r].key ELSE ShownName(r)

StoredText(r) ==
    [s \in Streams |-> IF row[r].legacy[s] # NoText THEN row[r].legacy[s] ELSE ShownText(r)[s]]

Stored ==
    {[id |-> r, name |-> StoredName(r), text |-> IF r \in Old THEN Nothing ELSE StoredText(r)]
        : r \in results}

Store == INSTANCE ResultStore WITH Ids <- Results, rows <- Stored

ImplementsResultStore == Store!Spec

\* The server comes up in the end, whatever the other processes do to its
\* statements and whatever the last attempt left behind.
ServerComesUp == <>(proc[Server].pc = "serving")

\* In the end the outputs of old results are gone for good, also those that a
\* migration which had read them before the prune writes after it.
OldOutputsAreRemoved ==
    <>[](\A r \in Old : r \notin outputs /\ row[r].legacy = Nothing)

-----------------------------------------------------------------------------
(* What the repository says and the code does not do.                      *)

\* internal/store/store_test.go:813: "expected legacy outputs to survive
\* migration".  Here an earlier version is still recording when the migration
\* (README.md:152, "Run migrations manually") clears what it has not copied.
LegacyOutputsSurvive == \A r \in results \ Old : StoredText(r) = Printed[r]

\* README.md:22 and systemd/README.md:28: with a postgres:// URL the server
\* works on PostgreSQL; so it comes up.
PostgresServerComesUp == Dialect = "postgres" => ServerComesUp
=============================================================================
