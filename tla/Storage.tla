------------------------------ MODULE Storage -------------------------------
(***************************************************************************)
(* What an upload leaves behind, and what takes it away again: the output  *)
(* texts of failed tests, kept once each in output_blobs under their       *)
(* SHA-256, and the report files kept under the artifacts directory.       *)
(* Handlers write files first and then everything else in one transaction; *)
(* `testrr storage prune` is a process of its own that works statement by  *)
(* statement; `testrr project delete` is a single statement.  SQLite gives *)
(* one connection at a time the right to write.                            *)
(*                                                                         *)
(* A text stands for its bytes and for their SHA-256.  The id of a run is  *)
(* that of the upload which creates it.  A file is known by its position   *)
(* in its upload, which stands for its contents and its checksum.          *)
(***************************************************************************)
EXTENDS Integers, Sequences, FiniteSets

CONSTANTS
    Uploads,                \* requests that upload reports
    Projects,               \* ids of the projects that exist at the start
    Streams,                \* columns of an output: failure, stdout, stderr
    Texts,                  \* what a test may print
    NoText,                 \* the empty text
    Cut,                    \* TruncateOutput, as a function on Texts
    Names,                  \* names of report files, after sanitizeFileName
    Reports,                \* what an upload may consist of
    KeepParsedArtifacts,    \* config: keep the files that were parsed, too
    StoreAllTestOutputs,    \* config: keep the output of tests that passed, too
    OutputRetention,        \* age at which outputs may be pruned
    RunRetention,           \* age at which runs may be pruned
    NoWriter,               \* nobody holds the write lock
    NoProject,              \* an upload that has not been sent has no project
    MaxFaults,              \* bound on crashes and failing statements
    MaxTime                 \* bound of the clock

Results == [status : {"passed", "failed", "skipped"},
            text : [Streams -> Texts \cup {NoText}]]
Files == [name : Names, broken : BOOLEAN]

ASSUME StorageAssumption ==
    /\ NoText \notin Texts
    /\ NoWriter \notin Uploads
    /\ Cut \in [Texts -> Texts]
    /\ KeepParsedArtifacts \in BOOLEAN
    /\ StoreAllTestOutputs \in BOOLEAN
    /\ OutputRetention \in Nat \ {0}
    /\ RunRetention \in Nat \ {0}
    /\ MaxFaults \in Nat
    /\ MaxTime \in Nat

\* The results of a report are those of all its files.
ASSUME UploadedReportsAssumption ==
    Reports \subseteq [files : Seq(Files), results : Seq(Results)]

VARIABLES
    now,        \* the clock
    projects,   \* rows of projects
    runs,       \* rows of runs
    artifacts,  \* rows of run_artifacts that have a file_path
    outputs,    \* rows of test_result_outputs
    blobs,      \* rows of output_blobs
    disk,       \* files under the artifacts directory: [path, file]
    writer,     \* the upload whose transaction holds the write lock
    tx,         \* rows that transaction has inserted so far
    upload,     \* the handler of each upload
    prune,      \* the process of `testrr storage prune`
    faults      \* crashes and failing statements so far

db == <<projects, runs, artifacts, outputs, blobs>>
vars == <<now, db, disk, writer, tx, upload, prune, faults>>

-----------------------------------------------------------------------------
(* Definitions whose name begins with Bad are wrong variants of the one     *)
(* that follows them: each shows that a property below notices the mistake. *)

\* applyOutputStoragePolicy: the text of stream s that is stored for a result.
BadKeptText(result, s) == IF result.text[s] = NoText THEN NoText ELSE Cut[result.text[s]]

KeptText(result, s) ==
    IF \/ result.text[s] = NoText
       \/ ~ StoreAllTestOutputs /\ result.status # "failed"
    THEN NoText
    ELSE Cut[result.text[s]]

\* The row that insertTestResultOutput inserts for result i of upload u.
OutputRow(u, i) ==
    LET result == upload[u].report.results[i] IN
    [run       |-> u,
     result    |-> i,
     blob      |-> [s \in Streams |-> KeptText(result, s)],
     truncated |-> [s \in Streams |-> KeptText(result, s) \notin {NoText, result.text[s]}]]

\* The texts for which upsertOutputBlob is to store a blob: not the empty one.
BadTextsOf(row) == {row.blob[s] : s \in Streams}
TextsOf(row) == {row.blob[s] : s \in Streams} \ {NoText}

\* The files of an upload up to the first one that no parser accepts.
ReadFiles(report) ==
    {i \in DOMAIN report.files : \A k \in 1 .. i - 1 : ~ report.files[k].broken}

IsBroken(report) == \E i \in DOMAIN report.files : report.files[i].broken

\* Those of them that storeArtifact writes.
RetainedFiles(report) ==
    {i \in ReadFiles(report) : report.files[i].broken \/ KeepParsedArtifacts}

Path(u, i) == <<u, upload[u].report.files[i].name>>

ArtifactRows(u) ==
    {[run |-> u, path |-> Path(u, i), file |-> i] : i \in RetainedFiles(upload[u].report)}

-----------------------------------------------------------------------------
NoRows == [runs |-> {}, artifacts |-> {}, outputs |-> {}, blobs |-> {}]
NoReport == [files |-> <<>>, results |-> <<>>]
IdleUpload == [pc |-> "idle", project |-> NoProject, uploadedAt |-> 0, report |-> NoReport, step |-> 1]

Init ==
    /\ now = 0
    /\ projects = Projects
    /\ runs = {} /\ artifacts = {} /\ outputs = {} /\ blobs = {}
    /\ disk = {}
    /\ writer = NoWriter
    /\ tx = NoRows
    /\ upload = [u \in Uploads |-> IdleUpload]
    /\ prune = [pc |-> "outputs", cutoff |-> 0, paths |-> {}, done |-> 0]
    /\ faults = 0

-----------------------------------------------------------------------------
(* The handler of an upload.                                               *)

\* The project is authenticated and the form is read.
StartUpload(u) ==
    /\ upload[u].pc = "idle"
    /\ \E p \in projects, r \in Reports :
          upload' = [upload EXCEPT ![u] = [pc |-> "files", project |-> p,
                                           uploadedAt |-> now, report |-> r, step |-> 1]]
    /\ UNCHANGED <<now, db, disk, writer, tx, prune, faults>>

\* storeArtifact: os.WriteFile, which replaces a file of that name.
WriteFile(path, i) ==
    {f \in disk : f.path # path} \cup {[path |-> path, file |-> i]}

FilesToStore(u) == {i \in RetainedFiles(upload[u].report) : i >= upload[u].step}

StoreArtifact(u) ==
    /\ upload[u].pc = "files"
    /\ \E i \in FilesToStore(u) :
          /\ \A k \in FilesToStore(u) : i <= k
          /\ disk' = WriteFile(Path(u, i), i)
          /\ upload' = [upload EXCEPT ![u].step = i + 1]
    /\ UNCHANGED <<now, db, writer, tx, prune, faults>>

\* A statement that writes gets the lock, or waits for it, or fails.
LockIsFree == writer = NoWriter

\* CreateRun inserts the run, which takes the lock, and its artifacts.
BeginRun(u) ==
    LET up == upload[u] IN
    /\ up.pc = "files"
    /\ FilesToStore(u) = {}
    /\ LockIsFree
    /\ up.project \in projects
    /\ writer' = u
    /\ tx' = [runs |-> {[id |-> u, project |-> up.project, uploadedAt |-> up.uploadedAt]},
              artifacts |-> ArtifactRows(u), outputs |-> {}, blobs |-> {}]
    /\ upload' = [upload EXCEPT ![u] = [up EXCEPT
                    !.pc = "results",
                    !.step = IF IsBroken(up.report) THEN Len(up.report.results) + 1 ELSE 1]]
    /\ UNCHANGED <<now, db, disk, prune, faults>>

\* upsertOutputBlob: ON CONFLICT (id) DO NOTHING.
NewBlobs(row) == {t \in TextsOf(row) : t \notin blobs \cup tx.blobs}

\* CreateRun inserts a result and its output, if there is any to be stored.
InsertResult(u) ==
    LET up  == upload[u]
        row == OutputRow(u, up.step)
    IN  /\ up.pc = "results"
        /\ up.step <= Len(up.report.results)
        /\ tx' = IF TextsOf(row) = {} THEN tx
                 ELSE [tx EXCEPT !.outputs = tx.outputs \cup {row},
                                 !.blobs = tx.blobs \cup NewBlobs(row)]
        /\ upload' = [upload EXCEPT ![u].step = up.step + 1]
        /\ UNCHANGED <<now, db, disk, writer, prune, faults>>

Commit(u) ==
    /\ upload[u].pc = "results"
    /\ upload[u].step > Len(upload[u].report.results)
    /\ runs' = runs \cup tx.runs
    /\ artifacts' = artifacts \cup tx.artifacts
    /\ outputs' = outputs \cup tx.outputs
    /\ blobs' = blobs \cup tx.blobs
    /\ tx' = NoRows
    /\ writer' = NoWriter
    /\ upload' = [upload EXCEPT ![u].pc = "recorded"]
    /\ UNCHANGED <<now, projects, disk, prune, faults>>

\* The handler ends without a run; its transaction is rolled back.
GiveUp(u) ==
    /\ upload' = [upload EXCEPT ![u].pc = "failed"]
    /\ tx' = IF writer = u THEN NoRows ELSE tx
    /\ writer' = IF writer = u THEN NoWriter ELSE writer
    /\ UNCHANGED <<now, db, disk, prune>>

\* The foreign key of runs: the project has been deleted meanwhile.
RefuseRun(u) ==
    /\ upload[u].pc = "files"
    /\ FilesToStore(u) = {}
    /\ LockIsFree
    /\ upload[u].project \notin projects
    /\ GiveUp(u)
    /\ faults' = faults

\* A file cannot be written, the database stays busy, the client is gone.
UploadFails(u) ==
    /\ upload[u].pc \in {"files", "results"}
    /\ faults < MaxFaults
    /\ GiveUp(u)
    /\ faults' = faults + 1

-----------------------------------------------------------------------------
(* testrr storage prune.  Each statement is a transaction of its own.       *)

BadPhaseAfter ==
    [outputs |-> "outputBlobs", outputBlobs |-> "select", select |-> "files",
     files |-> "runs", runs |-> "runBlobs", runBlobs |-> "outputs"]

PhaseAfter ==
    [outputs |-> "outputBlobs", outputBlobs |-> "select", select |-> "runs",
     runs |-> "runBlobs", runBlobs |-> "files", files |-> "outputs"]

BadExpired(run, cutoff) == run.uploadedAt <= cutoff
Expired(run, cutoff) == run.uploadedAt < cutoff

ExpiredIds(cutoff) == {r.id : r \in {q \in runs : Expired(q, cutoff)}}

\* The cutoff was computed some time ago, from the retention in force or from a
\* longer one.  Nothing is older than 0, which stands for all cutoffs before it.
Cutoffs(retention) == {c \in 0 .. now : c = 0 \/ c + retention <= now}

Proceed == [prune EXCEPT !.pc = PhaseAfter[prune.pc]]

\* PruneTestOutputs deletes the outputs of old runs.
PruneOutputs ==
    /\ prune.pc = "outputs"
    /\ LockIsFree
    /\ \E cutoff \in Cutoffs(OutputRetention) :
          outputs' = {o \in outputs : o.run \notin ExpiredIds(cutoff)}
    /\ prune' = Proceed
    /\ UNCHANGED <<now, projects, runs, artifacts, blobs, disk, writer, tx, upload, faults>>

\* deleteOrphanedOutputBlobs.
BadReferencedTexts ==
    {o.blob[CHOOSE s \in Streams : TRUE] : o \in outputs}

ReferencedTexts == UNION {TextsOf(o) : o \in outputs}

BadRemainingBlobs ==
    IF \E r \in runs : Expired(r, now - OutputRetention) THEN blobs \cap ReferencedTexts
    ELSE blobs

RemainingBlobs == blobs \cap ReferencedTexts

DeleteOrphanedOutputBlobs ==
    /\ prune.pc \in {"outputBlobs", "runBlobs"}
    /\ LockIsFree
    /\ blobs' = RemainingBlobs
    /\ prune' = Proceed
    /\ UNCHANGED <<now, projects, runs, artifacts, outputs, disk, writer, tx, upload, faults>>

\* PruneRuns selects the files of old runs, deletes those runs with all that
\* refers to them, and then removes the files.
SelectArtifacts ==
    /\ prune.pc = "select"
    /\ \E cutoff \in Cutoffs(RunRetention) :
          prune' = [Proceed EXCEPT
                      !.cutoff = cutoff,
                      !.paths = {a.path : a \in {b \in artifacts : b.run \in ExpiredIds(cutoff)}}]
    /\ UNCHANGED <<now, db, disk, writer, tx, upload, faults>>

\* ON DELETE CASCADE from runs.
DeleteRuns(ids) ==
    /\ runs' = {r \in runs : r.id \notin ids}
    /\ artifacts' = {a \in artifacts : a.run \notin ids}
    /\ outputs' = {o \in outputs : o.run \notin ids}

PruneRuns ==
    /\ prune.pc = "runs"
    /\ LockIsFree
    /\ DeleteRuns(ExpiredIds(prune.cutoff))
    /\ prune' = Proceed
    /\ UNCHANGED <<now, projects, blobs, disk, writer, tx, upload, faults>>

RemoveFile ==
    /\ prune.pc = "files"
    /\ \E path \in prune.paths :
          /\ disk' = {f \in disk : f.path # path}
          /\ prune' = [prune EXCEPT !.paths = prune.paths \ {path}]
    /\ UNCHANGED <<now, db, writer, tx, upload, faults>>

EndPrune ==
    /\ prune.pc = "files"
    /\ prune.paths = {}
    /\ prune' = [Proceed EXCEPT !.done = prune.cutoff]
    /\ UNCHANGED <<now, db, disk, writer, tx, upload, faults>>

\* A statement or a removal fails, or the process is killed: it ends there.
PruneFails ==
    /\ faults < MaxFaults
    /\ prune' = [prune EXCEPT !.pc = "outputs", !.paths = {}]
    /\ faults' = faults + 1
    /\ UNCHANGED <<now, db, disk, writer, tx, upload>>

-----------------------------------------------------------------------------
\* testrr project delete: projects, and by cascade all that refers to it.
DeleteProject(p) ==
    /\ p \in projects
    /\ LockIsFree
    /\ projects' = projects \ {p}
    /\ DeleteRuns({r.id : r \in {q \in runs : q.project = p}})
    /\ UNCHANGED <<now, blobs, disk, writer, tx, upload, prune, faults>>

\* The server dies: its handlers are gone, an open transaction is rolled back.
Crash ==
    /\ faults < MaxFaults
    /\ upload' = [u \in Uploads |->
                    IF upload[u].pc \in {"files", "results"}
                    THEN [upload[u] EXCEPT !.pc = "failed"] ELSE upload[u]]
    /\ tx' = NoRows
    /\ writer' = NoWriter
    /\ faults' = faults + 1
    /\ UNCHANGED <<now, db, disk, prune>>

Tick ==
    /\ now < MaxTime
    /\ now' = now + 1
    /\ UNCHANGED <<db, disk, writer, tx, upload, prune, faults>>

UploadStep(u) ==
    \/ StoreArtifact(u)
    \/ BeginRun(u)
    \/ InsertResult(u)
    \/ Commit(u)
    \/ RefuseRun(u)

PruneStep ==
    \/ PruneOutputs
    \/ DeleteOrphanedOutputBlobs
    \/ SelectArtifacts
    \/ PruneRuns
    \/ RemoveFile
    \/ EndPrune

Next ==
    \/ \E u \in Uploads : StartUpload(u) \/ UploadStep(u) \/ UploadFails(u)
    \/ PruneStep
    \/ PruneFails
    \/ \E p \in Projects : DeleteProject(p)
    \/ Crash
    \/ Tick

Spec == Init /\ [][Next]_vars

\* Handlers are scheduled, and the timer starts a prune every night.
FairSpec ==
    /\ Spec
    /\ \A u \in Uploads : WF_vars(UploadStep(u))
    /\ WF_vars(PruneStep)

-----------------------------------------------------------------------------
(* Properties.                                                             *)

Paths == Uploads \X Names
RunRows == [id : Uploads, project : Projects, uploadedAt : Nat]
ArtifactRow == [run : Uploads, path : Paths, file : Nat \ {0}]
OutputRows == [run : Uploads, result : Nat \ {0},
               blob : [Streams -> Texts \cup {NoText}],
               truncated : [Streams -> BOOLEAN]]
Transactions == [runs : SUBSET RunRows, artifacts : SUBSET ArtifactRow,
                 outputs : SUBSET OutputRows, blobs : SUBSET Texts]
UploadStates == [pc : {"idle", "files", "results", "recorded", "failed"},
                 project : Projects \cup {NoProject}, uploadedAt : Nat,
                 report : Reports \cup {NoReport}, step : Nat \ {0}]
PruneStates == [pc : DOMAIN PhaseAfter, cutoff : Nat, paths : SUBSET Paths, done : Nat]

\* Every table, file and process keeps the type the code gives it.
TypeOK ==
    /\ now \in Nat
    /\ projects \in SUBSET Projects
    /\ runs \in SUBSET RunRows
    /\ artifacts \in SUBSET ArtifactRow
    /\ outputs \in SUBSET OutputRows
    /\ blobs \in SUBSET Texts
    /\ disk \in SUBSET [path : Paths, file : Nat \ {0}]
    /\ writer \in Uploads \cup {NoWriter}
    /\ tx \in Transactions
    /\ upload \in [Uploads -> UploadStates]
    /\ prune \in PruneStates
    /\ faults \in 0 .. MaxFaults

\* Every stored output can be read back (upsertOutputBlob relies on a blob
\* that another run has stored; deleteOrphanedOutputBlobs may be about to
\* delete it): the blobs of a committed output exist.  ListRunResults would
\* show a missing one as an empty output.
OutputsCanBeRead == \A o \in outputs : TextsOf(o) \subseteq blobs

\* The outputs of a run that is not yet old are complete: each failed result
\* of its report has the row that it was stored with, whatever has been pruned,
\* deleted, rolled back or shared meanwhile, and no other result has one.
Fails(u, i) == upload[u].report.results[i].status = "failed"

FreshOutputsAreComplete ==
    \A r \in runs : r.uploadedAt + OutputRetention >= now =>
        {o.result : o \in {q \in outputs : q.run = r.id}} =
            IF IsBroken(upload[r.id].report) THEN {}
            ELSE {i \in DOMAIN upload[r.id].report.results :
                    /\ StoreAllTestOutputs \/ Fails(r.id, i)
                    /\ \E s \in Streams : upload[r.id].report.results[i].text[s] # NoText}

\* The file that an artifact row points at is there and holds what the row's
\* checksum says, unless its upload had two files of that name: a prune that
\* fails or dies half way never leaves a row without its file.
ArtifactRowsHaveFiles ==
    \A a \in artifacts :
        (\A b \in artifacts : b.path = a.path => b = a) =>
            [path |-> a.path, file |-> a.file] \in disk

\* A text no output refers to any more - its outputs were pruned, or went with
\* their run or project, or with a prune that died before it got to the blobs -
\* is collected in the end, by a later prune if need be.
OrphansAreCollected ==
    \A t \in Texts : []<>(t \in blobs => t \in ReferencedTexts)

-----------------------------------------------------------------------------
(* What the repository says and the code does not do.                      *)

\* internal/app/app.go:220: storage prune will "delete runs and retained
\* artifacts older than this many days": after a prune that has ended well,
\* there is no file of a run that was uploaded before its cutoff.
NoExpiredFilesAfterPrune ==
    \A u \in Uploads :
        (/\ upload[u].pc = "recorded"
         /\ upload[u].project \in projects
         /\ upload[u].uploadedAt < prune.done) =>
            \A f \in disk : f.path[1] # u

-----------------------------------------------------------------------------
(* The abstract specification this one implements.                         *)

\* What ListRunResults shows of an output: it joins with the blobs, and marks
\* a text that was cut.
Shown(o) ==
    [s \in Streams |-> IF o.blob[s] \in blobs
                       THEN [text |-> o.blob[s], truncated |-> o.truncated[s]]
                       ELSE [text |-> NoText, truncated |-> FALSE]]

ShownOutputs == {[run |-> o.run, result |-> o.result, shown |-> Shown(o)] : o \in outputs}

Recorded == {u \in Uploads : upload[u].pc = "recorded"}
FreshIds == {r.id : r \in {q \in runs : q.uploadedAt + OutputRetention >= now}}

Log == INSTANCE OutputLog WITH
    Ids <- Uploads, log <- ShownOutputs, recorded <- Recorded, kept <- FreshIds

\* Shared, pruned and collected blobs implement a plain log of outputs, in
\* which those of a run appear at once, never change, and stay as long as the
\* run is neither old nor deleted.
ImplementsOutputLog == Log!Spec
=============================================================================
