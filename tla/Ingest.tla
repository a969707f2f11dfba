------------------------------- MODULE Ingest -------------------------------
(***************************************************************************)
(* The upload path of testrr: CI jobs post reports with a retrying client, *)
(* one goroutine per request runs ingestRun, and the store records a run   *)
(* whose failures are compared with those of a predecessor.  Next to it    *)
(* work the nightly `testrr storage prune` and `testrr project delete`,    *)
(* both processes of their own on the same database; the server may crash. *)
(*                                                                         *)
(* A project stands for its row's id, which is never used twice.  A run is *)
(* identified by the request that creates it: newID gives every request a  *)
(* fresh id, so the id of attempt a of job j is <<j, a>>.                  *)
(***************************************************************************)
EXTENDS Integers, Sequences, FiniteSets

CONSTANTS
    Jobs,           \* CI jobs, each uploading one report
    MaxAttempts,    \* requests a client makes before it gives up
    Projects,       \* ids of the projects that exist at the start
    Branches,       \* branches a job may send
    NoBranch,       \* the branch of a job that sends none
    Keys,           \* test keys
    NoKey,          \* the empty test key a parser derives for a nameless test
    Reports,        \* what the parsers make of the files of one upload
    NoRun,          \* "no predecessor": previousRun = nil
    RunRetention,   \* age at which the nightly prune may delete a run
    MaxTime         \* bound of the clock

Statuses == {"passed", "failed", "skipped"}
AllKeys == Keys \cup {NoKey}
RunIds == Jobs \X (1 .. MaxAttempts)

ASSUME ConstantsAssumption ==
    /\ MaxAttempts \in Nat \ {0}
    /\ RunRetention \in Nat \ {0}
    /\ MaxTime \in Nat
    /\ NoRun \notin RunIds
    /\ NoKey \notin Keys

\* A report is the sequence of test results parsed from the files up to the
\* first file no parser accepts; broken tells whether there was such a file.
ASSUME ReportsAssumption ==
    Reports \subseteq [rows : Seq([key : AllKeys, status : Statuses]),
                       broken : BOOLEAN]

Requests == [project : Projects, branch : Branches,
             report : Reports]

VARIABLES
    now,        \* the clock
    projects,   \* rows of the projects table
    runs,       \* every run ever committed; its columns are never updated
    live,       \* the ids of those runs whose rows are still in the database
    tests,      \* rows of the tests catalogue: <<project, key>>
    request,    \* what each job uploads
    client,     \* the retrying client of each job
    handler     \* the goroutine of each request

vars == <<now, projects, runs, live, tests, request, client, handler>>

-----------------------------------------------------------------------------
(* Reading the database.  Definitions whose name begins with Bad are wrong  *)
(* variants of the one that follows them: each shows that some property     *)
(* below notices that mistake.                                              *)

\* The rows of run r that ListRunResults returns: it joins with the catalogue.
Listed(r) == {i \in DOMAIN runs[r].rows :
                <<runs[r].project, runs[r].rows[i].key>> \in tests}

\* Rows come ORDER BY status DESC, and the last one of a key stays in the map.
BadLastStatus(statuses) ==
    IF "passed" \in statuses THEN "passed"
    ELSE IF "failed" \in statuses THEN "failed"
    ELSE IF "skipped" \in statuses THEN "skipped"
    ELSE ""

LastStatus(statuses) ==
    IF "failed" \in statuses THEN "failed"
    ELSE IF "passed" \in statuses THEN "passed"
    ELSE IF "skipped" \in statuses THEN "skipped"
    ELSE ""

\* The map previousResults: a key that is missing reads as "".
PreviousResults(r) ==
    [k \in AllKeys |->
        LastStatus({runs[r].rows[i].status :
                      i \in {l \in Listed(r) : r \in live /\ runs[r].rows[l].key = k}})]

NoResults == [k \in AllKeys |-> ""]

Complete(p) == {r \in live : runs[r].project = p /\ runs[r].status = "complete"}

BadCompleteOn(p, b) == Complete(p)
CompleteOn(p, b) == {r \in Complete(p) : runs[r].branch = b}

\* ORDER BY uploaded_at DESC LIMIT 1; any of those with the same time.
Latest(S) == {r \in S : \A q \in S : runs[q].uploadedAt <= runs[r].uploadedAt}

-----------------------------------------------------------------------------
(* The run that ingestRun builds.                                          *)

BadIsRegression(row, previous) ==
    row.status = "failed" /\ previous[row.key] = "passed"

IsRegression(row, previous) ==
    row.status = "failed" /\ previous[row.key] # "failed"

Classified(rows, previous) ==
    [i \in DOMAIN rows |-> [key |-> rows[i].key, status |-> rows[i].status,
                            regression |-> IsRegression(rows[i], previous)]]

CountStatus(rows, s) == Cardinality({i \in DOMAIN rows : rows[i].status = s})
CountRegressions(rows) == Cardinality({i \in DOMAIN rows : rows[i].regression})

\* The record of the run of request h.  A broken upload is recorded without
\* rows and with zeroed counts, but newFailures was counted before that.
RunRecord(h) ==
    LET req  == request[h[1]]
        hd   == handler[h]
        all  == Classified(req.report.rows, hd.previous)
        kept == IF req.report.broken THEN <<>> ELSE all
    IN  [project     |-> req.project,
         branch      |-> req.branch,
         status      |-> IF req.report.broken THEN "failed_import" ELSE "complete",
         uploadedAt  |-> hd.uploadedAt,
         committedAt |-> now,            \* history variable
         prev        |-> hd.prev,
         blind       |-> hd.blind,       \* history variable
         rows        |-> kept,
         total       |-> Len(kept),
         passed      |-> CountStatus(kept, "passed"),
         failed      |-> CountStatus(kept, "failed"),
         skipped     |-> CountStatus(kept, "skipped"),
         newFailures |-> CountRegressions(all)]

-----------------------------------------------------------------------------
(* Initial states: the service is up, nothing has been uploaded.           *)

IdleHandler == [pc |-> "idle", uploadedAt |-> 0, prev |-> NoRun,
                previous |-> NoResults, blind |-> FALSE]

\* A goroutine that has ended holds nothing any more.
Closed == [IdleHandler EXCEPT !.pc = "closed"]

Init ==
    /\ now = 0
    /\ projects = Projects
    /\ runs = [r \in {} |-> NoRun]
    /\ live = {}
    /\ tests = {}
    /\ request \in [Jobs -> Requests]
    /\ client = [j \in Jobs |-> [state |-> "ready", attempt |-> 0]]
    /\ handler = [h \in RunIds |-> IdleHandler]

-----------------------------------------------------------------------------
(* The client: curl --fail --retry --retry-all-errors.                     *)

\* The client's next state when its request came back as an error, or not.
AfterError(c) ==
    [c EXCEPT !.state = IF c.attempt = MaxAttempts THEN "gaveup" ELSE "ready"]

\* A request is sent and, the project's credentials being found, its handler
\* takes its run id and upload time.
StartUpload(j) ==
    LET a == client[j].attempt + 1 IN
    /\ client[j].state = "ready"
    /\ request[j].project \in projects
    /\ client' = [client EXCEPT ![j] = [state |-> "waiting", attempt |-> a]]
    /\ handler' = [handler EXCEPT ![<<j, a>>] =
                     [IdleHandler EXCEPT !.pc = "findOnBranch", !.uploadedAt = now]]
    /\ UNCHANGED <<now, projects, runs, live, tests, request>>

\* A request is sent and refused with 401: there is no such project.
RefuseUpload(j) ==
    /\ client[j].state = "ready"
    /\ request[j].project \notin projects
    /\ client' = [client EXCEPT ![j] =
                    AfterError([state |-> "waiting", attempt |-> client[j].attempt + 1])]
    /\ UNCHANGED <<now, projects, runs, live, tests, request, handler>>

\* The connection breaks; the client retries, the handler is still at work.
LoseConnection(j) ==
    /\ client[j].state = "waiting"
    /\ client' = [client EXCEPT ![j] = AfterError(client[j])]
    /\ UNCHANGED <<now, projects, runs, live, tests, request, handler>>

-----------------------------------------------------------------------------
(* The handler, one action per database statement or response.             *)

\* Handler h has read something: the step of all its reads.
Advance(h, pc, prev, previous, blind) ==
    /\ handler' = [handler EXCEPT ![h] =
                     [pc |-> pc, uploadedAt |-> handler[h].uploadedAt, prev |-> prev,
                      previous |-> previous, blind |-> blind]]
    /\ UNCHANGED <<now, projects, runs, live, tests, request, client>>

\* FindPreviousRun, first query: the latest complete run of the branch.
FindOnBranch(h) ==
    LET req   == request[h[1]]
        found == Latest(CompleteOn(req.project, req.branch))
    IN  /\ handler[h].pc = "findOnBranch"
        /\ \/ \E r \in found : Advance(h, "listResults", r, NoResults, FALSE)
           \/ /\ found = {}
              /\ Advance(h, IF req.branch = NoBranch THEN "createRun" ELSE "findAnywhere",
                         NoRun, NoResults, FALSE)

\* FindPreviousRun, second query: the latest complete run of the project.
FindAnywhere(h) ==
    LET found == Latest(Complete(request[h[1]].project)) IN
    /\ handler[h].pc = "findAnywhere"
    /\ \/ \E r \in found : Advance(h, "listResults", r, NoResults, FALSE)
       \/ found = {} /\ Advance(h, "createRun", NoRun, NoResults, FALSE)

\* ListRunResults of the predecessor, which may have been deleted meanwhile.
ListPrevious(h) ==
    /\ handler[h].pc = "listResults"
    /\ Advance(h, "createRun", handler[h].prev, PreviousResults(handler[h].prev), FALSE)

\* A read fails, and ingestRun carries on without its result.
IgnoreReadError(h) ==
    /\ handler[h].pc \in {"findOnBranch", "findAnywhere", "listResults"}
    /\ Advance(h, "createRun", handler[h].prev, NoResults, TRUE)

\* The foreign key of the runs table, which SQLite checks only if told to.
BadProjectExists(p) == TRUE
ProjectExists(p) == p \in projects

\* upsertTestCatalogEntry for the results of a run: none without a key.
BadCatalogueEntries(run) ==
    {<<run.project, run.rows[i].key>> : i \in DOMAIN run.rows}

BadCatalogueOfFailures(run) ==
    {<<run.project, run.rows[i].key>> :
       i \in {l \in DOMAIN run.rows : run.rows[l].key # NoKey /\ run.rows[l].status = "failed"}}

CatalogueEntries(run) ==
    {<<run.project, run.rows[i].key>> :
       i \in {l \in DOMAIN run.rows : run.rows[l].key # NoKey}}

\* CreateRun: one transaction, in which every test is put into the catalogue.
CreateRun(h) ==
    LET run == RunRecord(h) IN
    /\ handler[h].pc = "createRun"
    /\ ProjectExists(run.project)
    /\ runs' = [r \in DOMAIN runs \cup {h} |-> IF r = h THEN run ELSE runs[r]]
    /\ live' = live \cup {h}
    /\ tests' = tests \cup CatalogueEntries(run)
    /\ handler' = [handler EXCEPT ![h] = [IdleHandler EXCEPT !.pc = "respond"]]
    /\ UNCHANGED <<now, projects, request, client>>

\* The answer of request h reaches its client, if that still waits for it.
Awaits(h) == client[h[1]] = [state |-> "waiting", attempt |-> h[2]]

\* 201 Created.
RespondCreated(h) ==
    /\ handler[h].pc = "respond"
    /\ handler' = [handler EXCEPT ![h] = Closed]
    /\ client' = IF Awaits(h) THEN [client EXCEPT ![h[1]].state = "acked"] ELSE client
    /\ UNCHANGED <<now, projects, runs, live, tests, request>>

\* 400: an artifact cannot be written, the database is busy, the request's
\* context is cancelled, the project is gone.  The transaction is rolled back.
BadRespondError(h) ==
    /\ handler[h].pc = "createRun"
    /\ handler' = [handler EXCEPT ![h] = Closed]
    /\ UNCHANGED <<now, projects, runs, live, tests, request, client>>

RespondError(h) ==
    /\ handler[h].pc = "createRun"
    /\ handler' = [handler EXCEPT ![h] = Closed]
    /\ client' = IF Awaits(h) THEN [client EXCEPT ![h[1]] = AfterError(client[h[1]])]
                 ELSE client
    /\ UNCHANGED <<now, projects, runs, live, tests, request>>

-----------------------------------------------------------------------------
(* What goes on around the handlers.                                       *)

BadExpired(r, cutoff) == runs[r].uploadedAt <= cutoff
Expired(r, cutoff) == runs[r].uploadedAt < cutoff

\* The DELETE of PruneRuns.  Its cutoff was computed some time before.
PruneRuns ==
    \E cutoff \in 0 .. now :
        /\ cutoff + RunRetention <= now
        /\ live' = {r \in live : ~ Expired(r, cutoff)}
        /\ UNCHANGED <<now, projects, runs, tests, request, client, handler>>

\* DELETE FROM projects, which cascades to the runs and the catalogue.
DeleteProject(p) ==
    /\ p \in projects
    /\ projects' = projects \ {p}
    /\ live' = {r \in live : runs[r].project # p}
    /\ tests' = {t \in tests : t[1] # p}
    /\ UNCHANGED <<now, runs, request, client, handler>>

\* The server dies and is restarted: its goroutines and connections are lost.
Crash ==
    /\ handler' = [h \in RunIds |-> IF handler[h].pc = "idle" THEN handler[h]
                                    ELSE Closed]
    /\ client' = [j \in Jobs |-> IF client[j].state = "waiting"
                                 THEN AfterError(client[j]) ELSE client[j]]
    /\ UNCHANGED <<now, projects, runs, live, tests, request>>

Tick ==
    /\ now < MaxTime
    /\ now' = now + 1
    /\ UNCHANGED <<projects, runs, live, tests, request, client, handler>>

-----------------------------------------------------------------------------
HandlerStep(h) ==
    \/ FindOnBranch(h)
    \/ FindAnywhere(h)
    \/ ListPrevious(h)
    \/ IgnoreReadError(h)
    \/ CreateRun(h)
    \/ RespondCreated(h)
    \/ RespondError(h)

ClientStep(j) == StartUpload(j) \/ RefuseUpload(j)

Next ==
    \/ \E j \in Jobs : ClientStep(j) \/ LoseConnection(j)
    \/ \E h \in RunIds : HandlerStep(h)
    \/ PruneRuns
    \/ \E p \in Projects : DeleteProject(p)
    \/ Crash
    \/ Tick

Spec == Init /\ [][Next]_vars

\* Goroutines are scheduled and the retry loop of the client goes on; nothing
\* is assumed of faults, of the clock, of the prune and of project deletion.
FairSpec ==
    /\ Spec
    /\ \A h \in RunIds : WF_vars(HandlerStep(h))
    /\ \A j \in Jobs : WF_vars(ClientStep(j))

-----------------------------------------------------------------------------
(* Properties.                                                             *)

Rows == Seq([key : AllKeys, status : Statuses, regression : BOOLEAN])

RunRecords ==
    [project : Projects, branch : Branches,
     status : {"complete", "failed_import"}, uploadedAt : Nat, committedAt : Nat,
     prev : RunIds \cup {NoRun}, blind : BOOLEAN, rows : Rows, total : Nat,
     passed : Nat, failed : Nat, skipped : Nat, newFailures : Nat]

Handlers ==
    [pc : {"idle", "findOnBranch", "findAnywhere", "listResults", "createRun",
           "respond", "closed"},
     uploadedAt : Nat, prev : RunIds \cup {NoRun},
     previous : [AllKeys -> Statuses \cup {""}], blind : BOOLEAN]

Clients == [state : {"ready", "waiting", "acked", "gaveup"}, attempt : 0 .. MaxAttempts]

\* Every variable keeps the type its columns and Go structs give it.
TypeOK ==
    /\ now \in Nat
    /\ projects \in SUBSET Projects
    /\ DOMAIN runs \in SUBSET RunIds
    /\ runs \in [DOMAIN runs -> RunRecords]
    /\ live \in SUBSET DOMAIN runs
    /\ tests \in SUBSET (Projects \X Keys)
    /\ request \in [Jobs -> Requests]
    /\ client \in [Jobs -> Clients]
    /\ handler \in [RunIds -> Handlers]

FailedKeys(r) == {runs[r].rows[i].key :
                    i \in {l \in DOMAIN runs[r].rows : runs[r].rows[l].status = "failed"}}
FlaggedKeys(r) == {runs[r].rows[i].key :
                     i \in {l \in DOMAIN runs[r].rows : runs[r].rows[l].regression}}

\* "Catch every regression" (ingestRun): a test that some recorded run shows as
\* failed was announced as a regression, by that run or by another recorded run
\* of the project - whatever the handlers overlapped with, however often the
\* client retried, and whatever was pruned or could not be read meanwhile.
NoRegressionMissed ==
    \A r \in DOMAIN runs : \A k \in FailedKeys(r) :
        \E q \in DOMAIN runs :
            runs[q].project = runs[r].project /\ k \in FlaggedKeys(q)

\* What a stored run says of its failures agrees with what its stored
\* predecessor says (ingestRun reads the predecessor's rows in two steps, long
\* before it writes its own): a failure is a regression exactly if the
\* predecessor has no failed result of that test.  Tests without a key cannot
\* be compared.  A run whose handler met a read error was compared with nothing.
RegressionRelativeToPrevious ==
    \A r \in live :
        (runs[r].prev \in live /\ ~ runs[r].blind) =>
            \A i \in DOMAIN runs[r].rows :
                LET row == runs[r].rows[i] IN
                row.key # NoKey =>
                    (row.regression <=> /\ row.status = "failed"
                                        /\ row.key \notin FailedKeys(runs[r].prev))

\* FindPreviousRun never goes back behind a finished upload: where a complete
\* run of the branch was stored before the upload of r began, and still is,
\* the predecessor of r is a complete run of that branch and no older than it.
SeesFinishedRuns ==
    \A r, p \in live :
        (/\ ~ runs[r].blind
         /\ runs[p].status = "complete"
         /\ runs[p].project = runs[r].project
         /\ runs[p].branch = runs[r].branch
         /\ runs[p].committedAt < runs[r].uploadedAt) =>
            /\ runs[r].prev \in DOMAIN runs
            /\ LET prev == runs[runs[r].prev] IN
               /\ prev.project = runs[r].project
               /\ prev.branch = runs[r].branch
               /\ prev.status = "complete"
               /\ prev.uploadedAt >= runs[p].uploadedAt

ListedWith(r, s) == {i \in Listed(r) : runs[r].rows[i].status = s}
NamelessWith(r, s) ==
    {i \in DOMAIN runs[r].rows : runs[r].rows[i].status = s /\ runs[r].rows[i].key = NoKey}
CountOf(r, s) == Cardinality(ListedWith(r, s)) + Cardinality(NamelessWith(r, s))

\* The counters of a stored run (ingestRun) are those of the results that
\* ListRunResults returns for it, but for the results whose test has no key:
\* the catalogue, which all uploads and deletions share, hides no other.
CountersMatchListing ==
    \A r \in live :
        /\ runs[r].passed = CountOf(r, "passed")
        /\ runs[r].failed = CountOf(r, "failed")
        /\ runs[r].skipped = CountOf(r, "skipped")
        /\ runs[r].total = runs[r].passed + runs[r].failed + runs[r].skipped

\* An upload answered with 201 is recorded, and its rows are there until the
\* run is older than the retention or its project is deleted: neither a crash
\* nor a retry nor a prune loses it.
AcknowledgedRunIsKept ==
    \A j \in Jobs : client[j].state = "acked" =>
        LET r == <<j, client[j].attempt>> IN
        /\ r \in DOMAIN runs
        /\ \/ r \in live
           \/ runs[r].uploadedAt + RunRetention < now
           \/ runs[r].project \notin projects

\* No upload that was under way when its project was deleted brings back a run
\* or a catalogue entry of that project.
DeletedProjectStaysEmpty ==
    /\ \A r \in live : runs[r].project \in projects
    /\ \A t \in tests : t[1] \in projects

\* Every job ends, with an acknowledged run or with its attempts used up: no
\* crash, lost answer or deleted project leaves a client waiting (curl's retry
\* loop against handleUploadAPI).
ClientsFinish ==
    \A j \in Jobs : <>(client[j].state \in {"acked", "gaveup"})

-----------------------------------------------------------------------------
(* The abstract specification this one implements.                         *)

RecordedHistory ==
    [r \in DOMAIN runs |-> [project |-> runs[r].project,
                            failed  |-> FailedKeys(r),
                            flagged |-> FlaggedKeys(r)]]

History == INSTANCE RunHistory WITH
    Ids <- RunIds, Keys <- AllKeys, history <- RecordedHistory, shown <- live

\* Every step of the service, seen as a history of runs, records one run that
\* explains its failures or withdraws recorded runs.
ImplementsRunHistory == History!Spec
=============================================================================
