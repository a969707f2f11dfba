# testrr in TLA+

testrr is a server that CI jobs upload test reports to. It stores each upload as
a *run*, compares its failures with those of a predecessor, and shows runs,
tests and their outputs. This directory holds a model of it in TLA+, the TLC
configurations that check the model on small instances, and theorems that TLAPS
proves for instances of every size.

## 1. The system

| Part | Where | State it keeps | What it does |
|---|---|---|---|
| Upload and ingest | `internal/httpserver/server.go` | one goroutine per request; files under `<data>/artifacts/<run>/` | authenticates, reads the predecessor and its results, parses the files, classifies failures, writes files, calls `CreateRun`, answers 201, 400 or 401 |
| Pages and read API | same | none | a few SELECTs per page or answer, no transaction |
| Store: runs | `internal/store/store.go` | tables `runs`, `run_artifacts`, `test_results` | `FindPreviousRun`, `CreateRun`, `ListRunResults`, `GetRun`, listings |
| Store: catalogue | `catalog.go` | table `tests`, one row per project and test key | upsert in `CreateRun`, join in every listing, backfill of old databases |
| Store: outputs | `output.go` | `test_result_outputs`, `output_blobs` | texts cut to a maximum, compressed, and stored once under their SHA-256 |
| Store: maintenance | `maintenance.go` | none of its own | `PruneTestOutputs`, `PruneRuns`, orphaned blobs, VACUUM, backfills |
| Store: migration | `store.go`, `catalog.go`, `output.go`, `maintenance.go` | the schema | at every start of server, prune and compaction |
| Store: analytics | `analytics.go` | none | queries for dashboard, sparklines and flaky tests |
| Projects, credentials | `store.go`, `internal/auth` | `projects`, `project_credentials` | create, delete, rotate password, authenticate |
| Parsers | `internal/parser` | none | JUnit, NUnit, TRX and `go test -json` to results; the registry tries them in turn |
| Command line, config | `internal/app`, `internal/config` | none | `serve`, `migrate`, `project ...`, `storage prune`, `storage compact` |
| Retrying client | `hack/upload-testrr.sh` | curl's attempt count | `curl --fail --retry 3 --retry-all-errors` |
| Timer | `systemd/` | none | starts `storage prune` every night, a process of its own |
| Views, front end | `internal/views`, `web` | none | HTML, scripts of a page |

**How the parts interact.** All processes - the server with a goroutine per
request, the prune, the operator's commands - meet only in the database and in
the artifacts directory. SQLite in WAL mode gives every SELECT a committed
snapshot and one connection at a time the right to write. A handler works in
several statements that are *not* a transaction (find the predecessor, list its
results) followed by one that is (`CreateRun`). The prune is a sequence of
transactions of one statement each, with removals of files at the end.

**What is hard.** Handlers read, think, and write later: what they read may be
old, half deleted or unreadable by then. Uploads overlap and carry the time at
which they began, not at which they became visible. Clients retry what was
already recorded. Texts are shared by uploads and collected by a prune that runs
beside them. Files and rows are written and removed in separate steps, each of
which may be the last one before a crash. PROJECT.json lists these hazards one
by one with the line where they bite.

**What makes the parts correct.**

- *Ingest*: every regression is announced by some run; what a run calls a
  regression agrees with its stored predecessor; the predecessor is no older
  than what had been stored before the upload began; counters agree with
  listings; an acknowledged run is there until it is old; a deleted project
  stays deleted; the client comes to an end.
- *Outputs and files*: an output that is stored can be read; it appears with its
  run, never changes, and stays until it is old; a row's file exists; what
  nothing refers to is collected.
- *Migration*: any number of processes may migrate at once, beside writers, and
  be killed; nothing is lost, whoever is done finds everything in place, and the
  server comes up.
- *Parsers*: each test of a report has one result, with its last verdict and its
  own output, however the events of packages and parallel tests interleave; every
  case of a tree of suites is reported once; keys tell tests apart; no file is
  claimed by two parsers.
- *Projects*: a slug names one project, and a project has one credential;
  commands that look up a project and write later hit the project they found or
  fail; a run belongs to a project that has had the secret it came with.
- *Pages and analytics*: a page read in several statements is whole, shows
  nothing of another project, and its lists agree with each other; a test is
  called flaky only if it alternates from run to run, or a run has both verdicts
  on it; the newest run is never replaced by an older one.

## 2. The modules

| Module | What it is |
|---|---|
| `Ingest` | the upload path: retrying clients, handlers statement by statement, `CreateRun` as one step, the prune of runs, project deletion, crashes, the clock |
| `RunHistory` | the abstract specification of Ingest: a history of runs in which every unannounced failure was known |
| `MCIngest` | small instances of Ingest: reports, a bound on faults, symmetry |
| `IngestProofs` | theorems about Ingest: types, announced regressions, refinement, and what is true of the runs it has recorded |
| `Storage` | what `CreateRun` and the handler store besides the run - artifacts, outputs, blobs, files - and what prune and project deletion take away, statement by statement and file by file |
| `OutputLog` | the abstract specification of stored outputs: a plain log |
| `MCStorage` | small instances of Storage |
| `StorageProofs` | theorems about Storage |
| `Migration` | `SQLStore.Migrate` in several processes at once, statement by statement, from each schema an earlier version has left; the server and the prune that follow it, and a server of an earlier version beside it |
| `ResultStore` | the abstract specification of Migration: a set of results, which no migration touches |
| `MCMigration` | small instances of Migration |
| `MigrationProofs` | theorems about Migration |
| `GoTestJSON` | a job that runs `go test -json` over several packages at once, the file its lines go into, and the parser that reads it line by line |
| `GoTestProofs` | theorems about GoTestJSON |
| `Orders` | sets put in order and elements picked from sequences, as Analytics and XmlReports use them |
| `OrdersProofs` | lemmas about these, about sums of sizes, joined lists, and recursion and induction over numbers |
| `XmlReports` | what the JUnit, NUnit and TRX parsers make of a document, as operators |
| `Reports` | one uploaded file: which parser of the registry takes it, and what comes out |
| `MCReports` | small instances of Reports: trees of suites, names, outcomes, odd files |
| `ReportsProofs` | theorems about Reports |
| `Projects` | operators' commands on projects, statement by statement, beside uploads that authenticate and store |
| `Accounts` | the abstract specification of Projects: accounts that change in single steps |
| `MCProjects` | a small instance of Projects |
| `ProjectsProofs` | theorems about Projects |
| `Analytics` | the queries of `analytics.go` and the listings of `store.go`, as operators over the tables |
| `Pages` | the handlers that only read, query by query, beside uploads, prunes and deletions |
| `MCPages` | a small instance of Pages |
| `PagesProofs` | theorems about Pages and what the operators of Analytics return |

### Ingest

One action per statement that other processes can get in between:
`StartUpload` (authentication, form, run id, `uploadedAt`), `FindOnBranch` and
`FindAnywhere` (the two queries of `FindPreviousRun`), `ListPrevious`
(`ListRunResults` of the predecessor; no rows if it is gone), `IgnoreReadError`
(the errors `ingestRun` throws away), `CreateRun` (classification, counters and
the whole transaction), `RespondCreated` and `RespondError`. `RefuseUpload` is
the 401 answer. Around them are `LoseConnection` (the client sees an error while
the handler goes on), `PruneRuns`, `DeleteProject`, `Crash` and `Tick`.

Abstractions: a project is its id (a project created later under the same slug
has another); a run's id is its request; a report is the sequence of rows parsed
from the files up to the first unreadable one, and whether there was one. Empty
and repeated test keys are kept, because parsers produce both (`junit.go:183`,
`junit.go:211`). The rows of the tests catalogue are kept because
`ListRunResults` joins with them. `runs` keeps every run ever committed, so that
properties can speak of what has been deleted; `live` says which are still
there. `committedAt` and `blind` are history variables: no action reads them.

Definitions called `Bad...` are wrong variants of the definition next to them.
They are not part of the specification: each one shows, put in the place of the
right one, that some property notices the mistake.

### Storage

A handler writes the files it keeps one by one (`StoreArtifact`), then takes
SQLite's write lock with its first INSERT (`BeginRun`), inserts results and
outputs (`InsertResult`, with the blob's `ON CONFLICT DO NOTHING` as
`NewBlobs`), and commits. `tx` holds the rows of the open transaction, which
only `Commit` makes visible; `GiveUp` and `Crash` drop them, and leave the files.
The prune runs through `outputs`, `outputBlobs`, `select`, `runs`, `runBlobs`,
`files` (the order of `storagePrune`, `PruneTestOutputs` and `PruneRuns`) and may
end anywhere (`PruneFails`). `DeleteProject` cascades, and removes neither files
nor blobs. A text stands for its bytes and its hash; `Cut` is `TruncateOutput`,
so that a long text and a short one can share a blob while only one is marked as
cut. Rows of `run_artifacts` without a `file_path` are left out: nothing reads
them.

Ingest and Storage describe the same transaction at two grains: other handlers
see `CreateRun` at once (Ingest), and the lock and the rollback that make it so
are in Storage.

### Migration

A process goes through `schema` and `addColumn` (`CreateTable`, `FindColumn`,
`AddColumn`, for the sequence `SchemaSteps`), `catalogRead` and `catalogWrite`
(`backfillNormalizedTestCatalog`), `outputsRead` and `outputsWrite`
(`backfillLegacyTestResultOutputs`), `inlineRead` and `inlineWrite`
(`backfillLegacyOutputBlobReferences`) and `clear`
(`clearLegacyTestResultOutputs`). What it reads in one step it writes in the
next, in `proc[p].items` and `proc[p].keys`, whatever has happened in between. A
transaction whose first statement writes holds SQLite's write lock and is one
step; one that is refused (`Fail`) ends the process, which systemd, the timer or
a user starts again. Afterwards the server serves (`CreateRun`) and the prune
takes away the outputs of old results, in three statements.

The initial states are the databases that earlier versions can have left: with
outputs in columns of `test_results` or in rows of `test_result_outputs`, or
some of both. `CreateLateRun` is a server of such a version that nobody has
stopped: `README.md:152` lets operators run `testrr migrate` by hand.

Left out: indexes, the other tables (created with IF NOT EXISTS by statements
that nothing else depends on), results without a key (those are Ingest's and
Pages'), and `auto_migrate = false`. Of a table's columns, the type is
modelled only where PostgreSQL refuses it.

### Reports: GoTestJSON and XmlReports

`Reports` is `Registry.ParseFiles` on one file (`ingestRun` calls it for one file
at a time). `Detect` is what each parser looks at - extension and first element,
or whether a go test event is found - `Registry` the order of `app.Run`,
`ParseGo` and `ParseXml` the choice and the refusal.

The file of `go test -json` is written by the job itself: tests start, print and
end, packages print and end, in any order go test allows, and the job may be
killed after any line. This half is external to the repository and taken from
the events the parser knows (`gotestjson.go:56`). Any line may be torn, because
the repository's own workflow pipes `2>&1` into the file, and one line may exceed
the scanner's 4 MiB. `ran` and `built` remember what really happened and what of
it arrived. `ScanLine` is one turn of the parser's loop (`SuiteAfter`,
`CaseAfter`: the two maps and their orders), `RowsOf` the results it makes of
them at the end. Durations, and the trimming of outputs, are left out.

`XmlReports` translates the three other parsers as operators on documents whose
suites form any tree. A text is the sequence of its segments, those between dots,
because `nunitSplitFullName` and `trxPackageName` cut there. The joints `" / "` and
`"::"`, which parsers put between names, are segments as well, also when a name has
one of its own; so a key is one text, in which nothing says any more where a name
ended. `Identified` is the condition under which this does no harm: no package,
class, test or file holds `"::"`, and package, class and test are there.
`Lower` is any function on segments that keeps `"::"`, because `deriveTestKey` drops
letter case. Two names that begin or end with a single colon at a joint (`a:` and
`b`, `a` and `:b`) do get one key in the code and are outside the model. What
`encoding/xml` does (which element goes to which field) is taken as given
(`IsTree`, `IsTestRun`): elements are numbered as they begin, so that a suite comes
after its parent. A document that is not well formed is refused.

### Projects

`CreateProject` is one transaction, and `CreateProjectFails` the error that comes
of a slug that is taken or of a statement that is refused with SQLITE_BUSY;
`FindProject` followed by `RotateCredential`
or `DeleteProject` are the two statements of the other commands, and the state
`found` between them is where another operator may get in between. `Interrupt`
is a command that is stopped, or whose write is refused. A request reads one
credential (`Authenticate`) and stores its run later (`StoreRun`), under the id it
has read. A secret stands for a username and a password, since
`AuthenticateBasic` needs both to be right on the same row. `known` and `since`
are history variables.

### Pages and Analytics

`Analytics` has an operator for every query of `analytics.go` and for the
listings, over the tables as they are when the query runs. Rows of one run have
the same `uploaded_at`, so `scan` leaves open which of them comes first: those
that were inserted first, or last. `GetFlakyTests` (`ROW_NUMBER`, then `LAG`) and
`GetTestDurationChart` sort twice, and each sort has a scan of its own, because
nothing ties the second one to the first. `Pages`
runs them: `Open` reads the project, then one action per query in the order of
the handler (`After`), then the answer. `visit` holds what one request has read;
readers change nothing, so one of them is enough. Beside it runs are stored under
times in any order, pruned from the oldest on (`horizon`), and projects deleted
and created again under the same slug. `SortRunResults` and `GroupRunResults` are
what the run page does with its rows. Names of tests and suites are numbers, in the
order in which the queries and the page sort them. `ORDER BY` is `InOrder`: the
elements of a set by their ranks, which says the same as sorting them and can be
reasoned about without induction. HTML, JSON and the filter that the browser
applies are left out.

## 3. What is checked

The runs of Ingest, Storage and Reports switch the deadlock check off: the service
really stops when every client is done and the clock is at its bound, and a file
is parsed once. Those of Migration, Projects and Pages leave it on.

| Run | Instance | What it shows |
|---|---|---|
| `IngestOverlap` | 3 jobs, 1 attempt, 1 branch, passing or failing-then-passing reports, clock 0..2, at most 1 fault | `NoRegressionMissed`, `RegressionRelativeToPrevious` |
| `IngestRetry` | 2 jobs, 2 attempts each, a branch or none, reports with repeated, skipped and nameless tests or unreadable, at most 1 fault | `TypeOK`, `SeesFinishedRuns`, `CountersMatchListing`, `AcknowledgedRunIsKept`, `DeletedProjectStaysEmpty` |
| `IngestFinishes` | 1 job, 3 attempts, any number of faults, fairness | `ClientsFinish`; every step implements `RunHistory` (`ImplementsRunHistory`) |
| `StorageOutputs` | 2 uploads, 4 kinds of report, 2 texts that are cut to the same, all files kept, at most 1 fault, clock 0..2, fairness | `TypeOK`, `OutputsCanBeRead`, `FreshOutputsAreComplete`, `ArtifactRowsHaveFiles`; every step implements `OutputLog` (`ImplementsOutputLog`); `OrphansAreCollected` |
| `MigrationRestarts` | a server and a prune, 2 legacy results of which 1 is old, 1 new one, 2 of an earlier version, 2 columns to add, at most 2 faults, fairness | `TypeOK`, `ServedAfterMigration`, `ServerComesUp`, `OldOutputsAreRemoved`; no step of a migration changes what is stored (`ImplementsResultStore`) |
| `ReportsParsed` | 2 packages with 2 tests each, files of up to 5 lines of which 1 may be torn; some 6000 XML documents: JUnit trees of 3 suites with 2 cases, NUnit trees with nested results, pairs of TRX results and definitions, odd files | `GoTypeOK`, `RowsTellLastVerdict`, `OutputsStayApart`, `BrokenPackageIsReported`, `OneParserPerFile`, `EveryXmlCaseIsReported`, `KeysTellTestsApart` |
| `ProjectsCommands` | 2 operators, 1 request, 1 slug, 2 secrets, 3 projects one after the other | `TypeOK`, `TablesAgree`, `NoNewProjectIsDeleted`, `RotationTakesEffect`; every step implements `Accounts` (`ImplementsAccounts`) |
| `PagesRead` | 3 runs of 2 tests on a branch or none (2 once there are two projects), 2 projects one after the other under 1 slug, times 1..3, lists of 1 test, 2 runs, windows of 3 results | `TypeOK`, `RunPageIsWhole`, `OwnStatusIsRecent`, `NothingForeignIsShown`, `ListedFailuresAreNamed`, `FlakyTestsAlternate`, `LatestNeverGoesBack` |

Four runs show where the program does not do what the repository says:

| Run | What happens | What the repository says |
|---|---|---|
| `LateOutputs` | a server of an earlier version stores an output in the old columns after the migration has read them; the migration clears it | `store_test.go:813` "expected legacy outputs to survive migration" |
| `PostgresStarts` | `output_blobs` has a column of type BLOB, which PostgreSQL refuses, so no server comes up | `README.md:22` "Set `TESTRR_DATABASE_URL` to a `postgres://` URL if you prefer PostgreSQL." |
| `LeakedFiles` | a prune that dies after deleting the rows leaves files that no later prune removes | `app.go:220` "delete runs and retained artifacts older than this many days" |
| `FailedPackages` | a package fails - a test runs into the timeout, `TestMain` exits - when one of its tests has been heard of and none has failed: all of its results are "passed" | `README.md:1` "Catch every regression", `gotestjson_test.go:45` "package failure result" |

Other disagreements need no run to be seen: a broken upload whose readable files
hold a failure is stored with `new_failures` above zero (`server_test.go:270`
"expected failed import to avoid storing test counts"); the first run of a branch
is compared with the latest run of any other (`README.md:95` "used to scope
regression detection to the same branch"); a result with an empty key is counted
and never listed (`server_test.go:225` "expected 6 results"); report files of a
deleted project stay on disk (`app.go:266` "Delete a project and all its data");
and `README.md:77` and `README.md:162` say that run metadata and artifacts are
kept indefinitely, while the prune deletes runs after 90 days unless it is told
otherwise (`app.go:220`). The models do what the code does in each of them. A
test on which one run is divided - it failed in one suite and passed in another - and which has
another result is called flaky or not as the database happens to order these two
results; no text of the repository says what it should be called, and
`FlakyTestsAlternate` leaves it open.

**Bounds.** Three overlapping uploads are what a stale predecessor needs: one
that both others read, one that changes what the third should have read. Two
jobs with two attempts give four requests, of which two may be copies of a
recorded one. The clock needs three values for a run to be older than the
retention (`Expired` is strict), in Ingest and in Storage; the prune starts as
often as it likes, with every cutoff the clock has reached. Two processes that
migrate are one that reads and one that writes in between, with the first one
as the third whenever it is killed and starts again. The two columns that one
of them finds missing and the other adds stand for the six of
`ensureOutputBlobSchema`. The legacy results have the same test and share a
text, so that names and blobs are found and not only added. `MaxFaults` bounds
crashes, failures and lost answers; one fault between any two steps reaches each
error path, and in `MigrationRestarts` a second one meets what the first one
left. In `IngestFinishes` it is so high that it never binds. `LeakedFiles` is
checked with the constraint `PromptUploads`, which leaves out handlers that work
for longer than a tick, so that its counterexample is a prune that died and not an
upload of 90 days.

Five lines (`MaxLines`) are two tests that start, a third event between their
ends, and a repetition of one of them; one torn line (`MaxTorn`) takes any event
away. JUnit trees of three suites have siblings, grandchildren and a second root.
`MaxProjects` is 3 for two successors of a slug, one of which may come in between
a lookup and a write; more operators than two only repeat what the second does.
In `PagesRead` the limits of lists and windows (`TopLimit`, `ListLimit`,
`RecentLimit`, `WindowLimit`) are smaller than what there is to list, so that they
bind; one run has both verdicts on a test, so that ties in the window of the flaky
query matter, and the other test only changes from run to run; a project that
takes the slug of another has at most one run beside one of the other
(`LaterProjectIsSmall`), which is enough to be foreign; and nothing else happens
while an answer is on its way (`AnswersAreSentAtOnce`), when the handler has read
everything and the properties have been evaluated. `Keys` are numbers because the
queries sort by them.

**Symmetry** is used for jobs, packages, tests, operators and secrets, in runs
without liveness only.

**Fairness.** `Ingest!FairSpec` assumes that goroutines get scheduled and that
curl goes on with its retry loop; nothing about faults, the clock, prune or
deletions. `Storage!FairSpec` assumes the same of handlers, and that the timer
(`OnCalendar`, `Persistent=true`) starts the prune again and again; faults are
finite, because a prune that dies every night collects nothing.
`Migration!FairSpec` assumes it of each process that migrates: systemd restarts
a server that failed (`Restart=on-failure`), the timer starts a prune every
night, and each of them goes on. Faults are finite there too; a statement that
is refused because the other process was faster is not a fault, and may happen
as often as it likes.

## 4. What is proved

Eight modules are checked by TLAPS: `IngestProofs`, `StorageProofs`,
`MigrationProofs`, `ProjectsProofs`, `GoTestProofs`, `OrdersProofs` (lemmas only),
`ReportsProofs` and `PagesProofs`. Their theorems hold for any number of jobs,
attempts, keys, reports, uploads, texts, files, processes, results, columns,
operators, requests, packages, tests, lines and faults, any limits of lists and
windows, and documents with trees of any depth and width and names of any length,
from the assumptions named in the modules:

- `ConstantsAssumption` and `ReportsAssumption` (Ingest), `StorageAssumption`,
  `UploadedReportsAssumption`, `BlobColumnsAssumption`, `ProjectsAssumption`: types
  of the constants, and that special values are not ordinary ones;
- `MigrationAssumption`: moreover, that every result has printed something - the
  others have no outputs to lose - and that the sets of results are disjoint;
- `GoTestAssumption`: moreover, that no test has the name `package`, which the
  parser gives to its own rows;
- `LowerAssumption`: lower case makes segments of segments, and `"::"` of `"::"`
  only;
- `ReportsAssumption` (Reports): the missing value is no extension of a file, and
  documents are what can be decoded, trees of suites or lists of results;
- `AnalyticsAssumption`, `PagesAssumption`: types of the constants, and that the
  catalogue has finitely many tests.

| Theorem | States | Of |
|---|---|---|
| `TypeCorrect`, `StorageTypeCorrect`, `MigrationTypeCorrect`, `ProjectsTypeCorrect`, `GoTestTypeCorrect`, `PagesTypeCorrect` | `[]TypeOK` (`[]GoTypeOK`) | each module |
| `RegressionsAreAnnounced` | `[]NoRegressionMissed` | Ingest |
| `IngestImplementsRunHistory` | `ImplementsRunHistory` | Ingest |
| `RunsAgreeWithPredecessors` | `[]RegressionRelativeToPrevious` | Ingest |
| `FinishedRunsAreSeen` | `[]SeesFinishedRuns` | Ingest |
| `CountersTellTheListing` | `[]CountersMatchListing` | Ingest |
| `AcknowledgedRunsAreKept` | `[]AcknowledgedRunIsKept` | Ingest |
| `DeletedProjectsStayEmpty` | `[]DeletedProjectStaysEmpty` | Ingest |
| `OutputsStayReadable` | `[]OutputsCanBeRead` | Storage |
| `OutputsStayComplete` | `[]FreshOutputsAreComplete` | Storage |
| `ArtifactsHaveTheirFiles` | `[]ArtifactRowsHaveFiles` | Storage |
| `StorageImplementsOutputLog` | `ImplementsOutputLog` | Storage |
| `ResultsAreServed` | `[]ServedAfterMigration` | Migration, if `LateColumns = "inline"` |
| `MigrationImplementsResultStore` | `ImplementsResultStore` | Migration, if `LateColumns = "inline"` |
| `TablesStayInAgreement` | `[]TablesAgree` | Projects |
| `OnlyKnownProjectsAreDeleted` | `NoNewProjectIsDeleted` | Projects |
| `SuccessfulRotationsTakeEffect` | `RotationTakesEffect` | Projects |
| `ProjectsImplementAccounts` | `ImplementsAccounts` | Projects |
| `ParserTellsLastVerdict` | `[]RowsTellLastVerdict` | GoTestJSON |
| `ParserKeepsOutputsApart` | `[]OutputsStayApart` | GoTestJSON |
| `ParserReportsBrokenPackages` | `[]BrokenPackageIsReported` | GoTestJSON |
| `JobsAreReported` | all four of them | Reports |
| `FilesHaveOneParser` | `[]OneParserPerFile` | Reports |
| `XmlCasesAreReported` | `[]EveryXmlCaseIsReported` | Reports |
| `XmlKeysTellTestsApart` | `[]KeysTellTestsApart` | Reports |
| `TestsOfAllDocumentsAreToldApart` | the same for rows of any two documents, of one format or two | Reports |
| `RunPagesAreWhole` | `[]RunPageIsWhole` | Pages |
| `OwnStatusesAreRecent` | `[]OwnStatusIsRecent` | Pages |
| `NothingForeignIsEverShown` | `[]NothingForeignIsShown` | Pages |
| `DashboardsAgree` | `[]ListedFailuresAreNamed` | Pages |
| `FlakyTestsHaveAlternated` | `FlakyTestsAlternate` | Pages |
| `NewestRunStaysNewest` | `LatestNeverGoesBack` | Pages |

`OutputsStayComplete` is about rows; that a row reads as what was printed is
`StorageImplementsOutputLog`. `ResultsAreServed` leaves out what an earlier version
goes on recording beside a server of this one (`Late`): it is shown after the next
migration, and `MigrationImplementsResultStore` says that it is not lost meanwhile.

`LateColumns = "inline"` says that the earlier version which is still running
writes `test_result_outputs`; run `LateOutputs` shows that the theorems need it.

*The argument for Ingest.* `NoRegressionMissed` is not inductive: when a handler
writes, what matters is what it read, perhaps from a run that has been deleted
since. The invariant `IngestInv` adds `PreviousKnown`: if a handler believes
that a test failed in its predecessor, some recorded run of the project does
have that failure, now and for ever, because runs are never altered; and
`FreshIds`: the run a handler is about to write is not there yet. Then a failure
in a new run is either announced by itself or known from a recorded run, for
which the claim held already. All reads that fail or find nothing only make
`previousResults` emptier, which announces more. The same fact gives the
refinement: `CreateRun` is the only step that `RunHistory` sees.

*The argument for recorded runs* (over `IngestInv`). Each
property of a run is decided long before the run is written, so each invariant
has a part about handlers that says what they hold, for as long as it matters.
`PredecessorsAgree`: what a handler holds is what its predecessor says while that
is stored, because the catalogue hides no result of a stored run that has a key
(`CatalogueIsComplete`) - a deletion takes the rows of the catalogue and the runs
at once - and ids are not used twice. `FinishedAreSeen`: whoever has looked
for a predecessor, or has found none on the branch, has seen every run of
the branch that was stored before he began (`HasSeen`); a run that is stored in the
meantime does not count, because no upload time runs ahead of the clock. Of
finitely or infinitely many runs one is the latest, for the same reason.
`AnswersAreRecorded`: a handler that is about to answer 201 has recorded its run,
and a client that has been answered has one under its last attempt. `CountersAgree`
with `CatalogueIsComplete` makes the counters the sizes of two disjoint sets of
rows, the listed and the nameless ones.

*The argument for Storage.* `OutputsCanBeRead` is not inductive either: the open
transaction will bring outputs whose texts were partly found in the table and
are not inserted again. `StorageInv` says of the pending outputs that their
texts are there or pending too (`PendingCanBeRead`), and that rows are pending
only under the write lock (`RowsNeedTheLock`); the only statement that deletes
texts needs the lock itself, and keeps what a committed output refers to.

The other properties are about a run and what belongs to it, which different
statements write and remove. `RowsInv` says whose rows there are: only those of
uploads that have committed, the artifacts of a run all or none of them, and in the
open transaction only those of its own upload. `OutputsInv` adds how far the
transaction has come: it has the outputs of the results before `step`, so that it
has all of them when it commits; the prune takes those of a run only when the run
is older than the retention, and so does not touch a fresh one
(`FreshOutputsStay`). Files are in no transaction. `FilesInv` says that a handler
has written the files before `step`, unless a later one of the same name is to
replace it, and that a prune which is about to remove files has first deleted the
rows of just these runs, or is about to, and that these have been recorded long
ago (`RemovedAreExpired`): it cannot meet a handler that still writes. The
refinement needs no more: outputs are shown when `Commit` makes them visible, all
at once, and a step that hides one is a prune's or a deletion's.

*The argument for Migration.* When a process clears the old columns it looks at
none of them; that nothing is lost depends on what it, or another process, has
copied before. `MigrationInv` says of the data that a result's name and outputs
are each in one place at least and never wrong (`NamesAreKept`,
`LegacyIsFaithful`, `OutputsAreFaithful`, `OutputsAreKept`), and of a process at
each stage what is behind it: before `outputsWrite` it has read all outputs that
nobody has copied (`ItemsAreComplete`), afterwards none is `Missing`, and from
`outputsRead` on no name is `Unmoved`. Both sets only shrink while other
processes work, which is the whole argument for a process that waits (`Waits`).
`ResultStore` follows because, under the invariant, what is stored is a function
of the set `results` alone (`StoredIsResults`).

*The argument for Projects.* The tables agree because of the constraints of the
schema; what is not obvious is that commands and requests which act on what they
read long ago do no harm. The invariant `IInv` says that a command that has found
a project still knows an id that was born before it began and has its slug for
ever (`CommandsRemember`), and that an authenticated request came with a secret
its project has had (`SecretsAreKnown`); ids are not given out twice, so that what
is written by an id cannot hit a successor. A rotation that changes a row has
changed the one that has the slug, because a slug has one project. The refinement
follows: each write is the abstract step of the slug, or no step.

*The argument for the parser.* `ran[p][t].told` is what really arrived and
`suites` what the parser has made of the lines so far; neither can be compared
with the other while the file is being written. `GoInv` relates both to the
lines: what has been told is the last verdict of the whole file
(`FileTellsOfTests`), what has been parsed is the last verdict up to `pos`
(`ScanTellsOfLines`), and of a prefix there is one last verdict
(`OneLastVerdict`), which the next line replaces or leaves (`NextVerdict`). When
all has been read (`ParsedIsRead`), both are the same; and a test has one row,
because maps note a key once (`NotedOnce`). Outputs are sequences, of which a
recursive definition over the lines would speak; the prover has no induction, so
`TextInv` says instead that there is a *transcript*: a function that is empty at 0,
grows with each line that prints, has what was printed at the end of the file and
what was read at `pos`. A line that is written extends it; a line that is scanned
moves along it; and two values at the same place of one function are equal. Of
packages it says that both sides have heard of a failure when the lines so far hold
one.

*The argument for Reports.* Which parser takes a file depends on the file alone, and
the go test parser starts from `GoInv` and `TextInv` whenever it starts; an XML
file leaves the job's state as it is, of which there is none then
(`OtherFilesHaveNoLines`). `FilesHaveOneParser` goes through the parsers in pairs.

*The argument for XML documents.* A walk through a tree is defined by recursion, and
the provers do not take an operator as the parameter of an induction. So
`OrdersProofs` states both over data: `FromTheRoot` and `FromTheLeaves` say that a
*set* which has 0 and each number whose parent it has, or each number all of whose
successors it has, has all of `0 .. n` - because the numbers that it lacks would have
a least one (`Counting`) - and `Recursion` and `Descent` that a function defined by
such steps exists: there is one that is right up to any rank. With these,
`Around` (a suite and what it is in) is followed down from the root
(`AroundGrows`, `DownTheTree`), where of the suites around another each has one
child (`OneChildIsAround`); and the lists of a walk up from the leaves (`WalkGoesOn`):
at a suite it has the suite's cases and then the lists of its children, which by
`NoneIsLeftOut` and `WithinGrows` are exactly the cases within it, each once. At the
root these are all cases (`EveryCaseIsVisited`), so that rows and cases are counted
by a bijection. `SuitePathEncloses` says that the path a row is given is made of the
names around its suite.

A key is taken apart from its end: the last `"::"` is where the last part begins
(`LastTextIsFound`), because no part has one of its own; then what is before it is
again such a key (`JoinsTellTexts`). Two keys that are the same in lower case thus
have the same number of parts, the same but for case (`KeysTellTexts`). What the
parts are depends on what was empty and dropped: three for NUnit and TRX, four for
JUnit, five with a file (`KeysAreJoined`), so that the number of parts says which
one was dropped.

*The argument for Pages.* Four facts about operators carry it. `InOrderLists`: the
ranks of the elements of a finite set in a strict order are different, and less
than their number, so that each number is one of them - a pigeonhole, where
sorting would need induction. `FirstOfList`: what a limit cuts off comes after all
that it leaves. `GroupsArePartition`: each result is in one bucket, because each
name has one first place. `FlakyAlternates`: a window with two transitions holds a
verdict, the other, and the first again, and the other way round. That is about
results, in an order that is partly accidental; `FlakyTestsAlternate` is about runs.
`NewestRowsSuffice` bridges them: whichever results of a run come first, a window
has all those that it must have (`InWindow`) and none that it cannot
(`MaybeInWindow`), and `RunsAlternate` takes three places of the window to three
runs, or two of them to one run that is divided. `TablesInv` adds
to the types that a row knows its run and its place, that no two runs have the same
time, that what is left is not older than `horizon` and that numbers of projects
are not used twice.

None of the properties of a page is inductive, since the tables have moved on
when it is shown. What others can do to them meanwhile is `TablesMoveOn`: stored
runs never change, no run comes back, and no run goes before the older ones of its
project. `VisitInv` says of each stage what has been read: `RunIsFound` that the run
has the project and the branch of the request, for good; `RunIsListed` that the
rows are all of the run's, or none and then it has gone; `DashboardAgrees` that the
failing tests cover the failures of the runs that are listed and still there -
there may be more by now among the tests, never more among the listed runs.
`OwnStatusIsRecent` stays true because, while its run is there, so is everything of
the project that is newer. For `LatestNeverGoesBack`, `LatestIsKnown` keeps
track of the run that was listed: it is there still, or older than `horizon`, or
its project is gone for good, and each of the three puts it behind whatever is
listed next.

Only model-checked is liveness (`ClientsFinish`, `OrphansAreCollected`,
`ServerComesUp`, `OldOutputsAreRemoved`): it rests on fairness, hence on ENABLED,
which is out of reach of the prover. Every other property of a passing run is a
theorem. The four runs that end in a counterexample need no proof.

## 5. What is not modelled

- Power failures: with `synchronous=NORMAL` a committed run may be lost then.
- PostgreSQL beyond its start, which fails (`PostgresStarts`); under its locking,
  moreover, `OutputsCanBeRead` would need another argument.
- VACUUM, compression, and cutting a text in the middle of a UTF-8 sequence.
- Decoding of XML, durations, failure messages and outputs of XML reports. An
  outcome "Error" of NUnit or TRX becomes skipped, as the code has it
  (`NUnitCaseStatus`, `TRXOutcome`); `EveryXmlCaseIsReported` holds JUnit and NUnit
  to their own tables and makes no claim about TRX outcomes.
- RFC3339Nano: the order of the texts in `uploaded_at` is taken as the order of
  time; texts of the same second whose fractions end in zeros sort differently
  (`store.go:800`). `uploadedAt` is one number, the place of the text, so
  `LatestNeverGoesBack` and `SeesFinishedRuns` cannot see the two orders differ.
- The columns of the catalogue that describe a test, which each upload overwrites.
- Password hashing: a password matches its own hash and no other.
- Rendering (`internal/views`, mostly generated), access log, flags, container
  management, CSS and scripts: they keep no state of the system.

## 6. Plan

Done: all parts of section 1 that keep state or decide what is stored and shown,
and proofs of every safety property and every refinement that is checked.
What would come next, in this order:

1. `UploadTime`: order of RFC3339Nano texts against order of times
   (`store.go:800`), and what it does to `FindPreviousRun`, pages and cutoffs.
2. The catalogue's descriptive columns, which overlapping uploads overwrite.
3. Names as characters in `deriveTestKey`, so that single colons next to a joint
   are in the model.
