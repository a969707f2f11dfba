---------------------------- MODULE StorageProofs ---------------------------
(***************************************************************************)
(* Proofs about Storage, for any number of uploads, texts, files, faults   *)
(* and prunes: every state is well typed; no stored output ever loses a    *)
(* text that it shares with others; an artifact row has its file; a run    *)
(* that is not yet old has the outputs it was recorded with; and all of it *)
(* implements the plain OutputLog.                                         *)
(*                                                                         *)
(* None of this is inductive.  What is true of committed rows is brought   *)
(* by the open transaction, some of whose texts were found in the table    *)
(* (ON CONFLICT DO NOTHING) and are not inserted with it: so the invariant *)
(* says the same of the transaction, whose handler holds the lock without  *)
(* which no orphaned text is deleted (StorageInv), of which rows it is     *)
(* made (RowsInv), and how far it has come (OutputsInv).  Files are not    *)
(* part of it: FilesInv says which ones a handler has written so far and   *)
(* whose a prune may be about to remove.                                   *)
(***************************************************************************)
EXTENDS Storage, TLAPS

\* The outputs of the open transaction refer to texts it can rely on.
PendingCanBeRead == \A o \in tx.outputs : TextsOf(o) \subseteq blobs \cup tx.blobs

\* Rows are inserted under the lock; nothing is pending when it is free.
RowsNeedTheLock ==
    /\ \A u \in Uploads : upload[u].pc = "results" => writer = u
    /\ writer = NoWriter => tx = NoRows

\* A handler at work has a project.
HasProject ==
    \A u \in Uploads : upload[u].pc \in {"files", "results"} => upload[u].project \in Projects

TypeInv == TypeOK /\ HasProject
StorageInv == TypeInv /\ OutputsCanBeRead /\ PendingCanBeRead /\ RowsNeedTheLock

-----------------------------------------------------------------------------
(* What the reports of uploads consist of.                                 *)

LEMMA ReportParts ==
    ASSUME NEW r \in Reports \cup {NoReport}
    PROVE  /\ r.files \in Seq(Files)
           /\ r.results \in Seq(Results)
<1>1. CASE r \in Reports
    BY <1>1, UploadedReportsAssumption
<1>2. CASE r = NoReport
    BY <1>2 DEF NoReport
<1> QED
    BY <1>1, <1>2

LEMMA ReportResults ==
    ASSUME NEW r \in Reports \cup {NoReport}, NEW i \in Nat \ {0}, i <= Len(r.results)
    PROVE  /\ r.results[i].status \in {"passed", "failed", "skipped"}
           /\ r.results[i].text \in [Streams -> Texts \cup {NoText}]
<1>1. r.results \in Seq(Results)
    BY ReportParts
<1>2. i \in 1 .. Len(r.results)
    BY <1>1
<1>3. r.results[i] \in Results
    BY <1>1, <1>2
<1> QED
    BY <1>3 DEF Results

LEMMA RetainedFileNames ==
    ASSUME NEW r \in Reports \cup {NoReport}, NEW i \in RetainedFiles(r)
    PROVE  i \in Nat \ {0} /\ r.files[i].name \in Names
<1>1. r.files \in Seq(Files)
    BY ReportParts
<1>2. i \in 1 .. Len(r.files)
    BY <1>1 DEF RetainedFiles, ReadFiles
<1>3. r.files[i] \in Files
    BY <1>1, <1>2
<1> QED
    BY <1>2, <1>3 DEF Files

LEMMA KeptTextType ==
    ASSUME NEW result, NEW s \in Streams, result.text \in [Streams -> Texts \cup {NoText}]
    PROVE  KeptText(result, s) \in Texts \cup {NoText}
BY StorageAssumption DEF KeptText

LEMMA OutputRowType ==
    ASSUME TypeOK, NEW u \in Uploads, upload[u].step <= Len(upload[u].report.results)
    PROVE  OutputRow(u, upload[u].step) \in OutputRows
<1> DEFINE r == upload[u].report
           i == upload[u].step
           result == r.results[i]
<1>1. r \in Reports \cup {NoReport} /\ i \in Nat \ {0}
    BY DEF TypeOK, UploadStates
<1>2. result.text \in [Streams -> Texts \cup {NoText}]
    BY <1>1, ReportResults
<1>3. \A s \in Streams : KeptText(result, s) \in Texts \cup {NoText}
    BY <1>2, KeptTextType
<1> QED
    BY <1>1, <1>3 DEF OutputRow, OutputRows

\* A handler's record with a new step and pc is a handler's record.
LEMMA UploadMoves ==
    ASSUME NEW up \in UploadStates, NEW n \in Nat \ {0},
           NEW pc \in {"idle", "files", "results", "recorded", "failed"}
    PROVE  /\ [up EXCEPT !.step = n] \in UploadStates
           /\ [up EXCEPT !.pc = pc] \in UploadStates
           /\ [up EXCEPT !.pc = pc, !.step = n] \in UploadStates
BY DEF UploadStates

LEMMA TextsOfType ==
    ASSUME NEW o \in OutputRows
    PROVE  TextsOf(o) \subseteq Texts
BY DEF OutputRows, TextsOf

LEMMA ArtifactRowsType ==
    ASSUME TypeOK, NEW u \in Uploads
    PROVE  ArtifactRows(u) \subseteq ArtifactRow
<1> SUFFICES ASSUME NEW i \in RetainedFiles(upload[u].report)
             PROVE  [run |-> u, path |-> Path(u, i), file |-> i] \in ArtifactRow
    BY DEF ArtifactRows
<1>1. upload[u].report \in Reports \cup {NoReport}
    BY DEF TypeOK, UploadStates
<1>2. i \in Nat \ {0} /\ upload[u].report.files[i].name \in Names
    BY <1>1, RetainedFileNames
<1> QED
    BY <1>2 DEF ArtifactRow, Paths, Path

-----------------------------------------------------------------------------
(* The invariant holds at the start.                                       *)

LEMMA StorageInit == Init => StorageInv
<1> SUFFICES ASSUME Init PROVE StorageInv
    OBVIOUS
<1>1. IdleUpload \in UploadStates
    BY DEF IdleUpload, UploadStates
<1>2. NoRows \in Transactions
    BY DEF NoRows, Transactions
<1>3. prune \in PruneStates
    BY DEF Init, PruneStates, PhaseAfter
<1>4. TypeOK
    BY <1>1, <1>2, <1>3, StorageAssumption DEF Init, TypeOK
<1>5. HasProject /\ RowsNeedTheLock
    BY DEF Init, IdleUpload, HasProject, RowsNeedTheLock
<1>6. OutputsCanBeRead /\ PendingCanBeRead
    BY DEF Init, NoRows, OutputsCanBeRead, PendingCanBeRead
<1> QED
    BY <1>4, <1>5, <1>6 DEF StorageInv, TypeInv

-----------------------------------------------------------------------------
(* The steps of a handler.                                                 *)

LEMMA StartUploadStep ==
    ASSUME StorageInv, NEW u \in Uploads, StartUpload(u)
    PROVE  StorageInv'
<1> USE DEF StorageInv, TypeInv
<1>1. PICK p \in projects, r \in Reports :
        upload' = [upload EXCEPT ![u] = [pc |-> "files", project |-> p,
                                         uploadedAt |-> now, report |-> r, step |-> 1]]
    BY DEF StartUpload
<1>a. [pc |-> "files", project |-> p, uploadedAt |-> now, report |-> r, step |-> 1]
            \in UploadStates
    BY DEF TypeOK, UploadStates
<1>2. upload' \in [Uploads -> UploadStates]
    BY <1>1, <1>a DEF TypeOK
<1>3. TypeOK'
    BY <1>2 DEF TypeOK, StartUpload, db
<1>4. HasProject'
    BY <1>1 DEF TypeOK, HasProject
<1>5. RowsNeedTheLock'
    BY <1>1 DEF TypeOK, RowsNeedTheLock, StartUpload
<1> QED
    BY <1>3, <1>4, <1>5
       DEF StartUpload, db, OutputsCanBeRead, PendingCanBeRead, TextsOf

LEMMA StoreArtifactStep ==
    ASSUME StorageInv, NEW u \in Uploads, StoreArtifact(u)
    PROVE  StorageInv'
<1> USE DEF StorageInv, TypeInv
<1>1. PICK i \in FilesToStore(u) :
        /\ disk' = WriteFile(Path(u, i), i)
        /\ upload' = [upload EXCEPT ![u].step = i + 1]
    BY DEF StoreArtifact
<1>2. upload[u].report \in Reports \cup {NoReport}
    BY DEF TypeOK, UploadStates
<1>3. i \in Nat \ {0} /\ upload[u].report.files[i].name \in Names
    BY <1>2, RetainedFileNames DEF FilesToStore
<1>4. disk' \in SUBSET [path : Paths, file : Nat \ {0}]
    BY <1>1, <1>3 DEF TypeOK, WriteFile, Path, Paths
<1>5. upload' \in [Uploads -> UploadStates]
  <2>1. upload[u] \in UploadStates /\ i + 1 \in Nat \ {0}
    BY <1>3 DEF TypeOK
  <2>2. [upload[u] EXCEPT !.step = i + 1] \in UploadStates
    BY <2>1, UploadMoves
  <2> QED
    BY <1>1, <2>2 DEF TypeOK
<1>6. TypeOK'
    BY <1>4, <1>5 DEF TypeOK, StoreArtifact, db
<1>7. HasProject' /\ RowsNeedTheLock'
    BY <1>1 DEF TypeOK, UploadStates, HasProject, RowsNeedTheLock, StoreArtifact
<1> QED
    BY <1>6, <1>7 DEF StoreArtifact, db, OutputsCanBeRead, PendingCanBeRead, TextsOf

LEMMA BeginRunStep ==
    ASSUME StorageInv, NEW u \in Uploads, BeginRun(u)
    PROVE  StorageInv'
<1> USE DEF StorageInv, TypeInv
<1> DEFINE up == upload[u]
           next == IF IsBroken(up.report) THEN Len(up.report.results) + 1 ELSE 1
<1>1. up \in UploadStates
    BY DEF TypeOK
<1>2. next \in Nat \ {0}
  <2>1. up.report \in Reports \cup {NoReport}
    BY <1>1 DEF UploadStates
  <2>2. Len(up.report.results) \in Nat
    BY <2>1, ReportParts
  <2> QED
    BY <2>2
<1> HIDE DEF next
<1>3. upload' = [upload EXCEPT ![u] = [up EXCEPT !.pc = "results", !.step = next]]
    BY DEF BeginRun, next
<1>4. upload' \in [Uploads -> UploadStates]
    BY <1>1, <1>2, <1>3, UploadMoves DEF TypeOK
<1>5. up.project \in Projects /\ up.uploadedAt \in Nat
    BY <1>1 DEF BeginRun, HasProject, UploadStates
<1>6. tx' \in Transactions
    BY <1>5, ArtifactRowsType DEF BeginRun, Transactions, RunRows
<1>7. TypeOK'
    BY <1>4, <1>6 DEF TypeOK, BeginRun, db
<1>8. HasProject'
    BY <1>1, <1>3, <1>5 DEF TypeOK, UploadStates, HasProject
<1>9. RowsNeedTheLock'
    BY <1>3, StorageAssumption DEF TypeOK, RowsNeedTheLock, BeginRun, LockIsFree
<1> QED
    BY <1>7, <1>8, <1>9 DEF BeginRun, db, OutputsCanBeRead, PendingCanBeRead, TextsOf

LEMMA InsertResultStep ==
    ASSUME StorageInv, NEW u \in Uploads, InsertResult(u)
    PROVE  StorageInv'
<1> USE DEF StorageInv, TypeInv
<1> DEFINE up == upload[u]
           row == OutputRow(u, up.step)
<1>1. up \in UploadStates /\ up.step + 1 \in Nat \ {0}
    BY DEF TypeOK, UploadStates
<1>2. upload' = [upload EXCEPT ![u] = [up EXCEPT !.step = up.step + 1]]
    BY DEF InsertResult
<1>3. upload' \in [Uploads -> UploadStates]
    BY <1>1, <1>2, UploadMoves DEF TypeOK
<1>4. row \in OutputRows
    BY OutputRowType DEF InsertResult
<1>5. TextsOf(row) \subseteq Texts
    BY <1>4, TextsOfType
<1> HIDE DEF row
<1>6. \/ tx' = tx
      \/ tx' = [tx EXCEPT !.outputs = tx.outputs \cup {row},
                         !.blobs = tx.blobs \cup {t \in TextsOf(row) : t \notin blobs \cup tx.blobs}]
    BY DEF InsertResult, NewBlobs, row
<1>7. tx' \in Transactions
    BY <1>4, <1>5, <1>6 DEF TypeOK, Transactions
<1>8. TypeOK'
    BY <1>3, <1>7 DEF TypeOK, InsertResult, db
<1>9. HasProject' /\ RowsNeedTheLock'
  <2>1. writer = u /\ u # NoWriter
    BY StorageAssumption DEF InsertResult, RowsNeedTheLock
  <2> QED
    BY <1>1, <1>2, <2>1 DEF TypeOK, UploadStates, HasProject, RowsNeedTheLock, InsertResult
<1>10. PendingCanBeRead'
  <2> SUFFICES ASSUME NEW o \in tx'.outputs
               PROVE  TextsOf(o) \subseteq blobs \cup tx'.blobs
    BY DEF PendingCanBeRead, TextsOf, InsertResult, db
  <2>1. /\ tx'.outputs \subseteq tx.outputs \cup {row}
        /\ tx.blobs \subseteq tx'.blobs
        /\ tx' # tx => TextsOf(row) \subseteq blobs \cup tx'.blobs
    BY <1>6 DEF TypeOK, Transactions
  <2>2. CASE o \in tx.outputs
    BY <2>1, <2>2 DEF PendingCanBeRead
  <2>3. CASE o \notin tx.outputs
    BY <2>1, <2>3
  <2> QED
    BY <2>2, <2>3
<1>11. OutputsCanBeRead'
    BY DEF InsertResult, db, OutputsCanBeRead, TextsOf
<1> QED
    BY <1>8, <1>9, <1>10, <1>11

\* The commit brings outputs together with the texts that were not there.
LEMMA CommitStep ==
    ASSUME StorageInv, NEW u \in Uploads, Commit(u)
    PROVE  StorageInv'
<1> USE DEF StorageInv, TypeInv
<1>1. upload' \in [Uploads -> UploadStates]
  <2>1. upload[u] \in UploadStates
    BY DEF TypeOK
  <2>2. [upload[u] EXCEPT !.pc = "recorded"] \in UploadStates
    BY <2>1 DEF UploadStates
  <2> QED
    BY <2>2 DEF TypeOK, Commit
<1>2. tx' = NoRows /\ NoRows \in Transactions
    BY DEF Commit, NoRows, Transactions
<1>3. TypeOK'
    BY <1>1, <1>2 DEF TypeOK, Commit, Transactions
<1>4. \A v \in Uploads : upload'[v].pc = "results" => v # u /\ upload[v].pc = "results"
    BY DEF TypeOK, UploadStates, Commit
<1>5. RowsNeedTheLock'
    BY <1>2, <1>4 DEF RowsNeedTheLock, Commit
<1>6. HasProject'
    BY DEF TypeOK, UploadStates, HasProject, Commit
<1>7. OutputsCanBeRead' /\ PendingCanBeRead'
    BY DEF Commit, NoRows, OutputsCanBeRead, PendingCanBeRead, TextsOf
<1> QED
    BY <1>3, <1>5, <1>6, <1>7

\* What all the ways to end without a run have in common.
LEMMA GiveUpStep ==
    ASSUME StorageInv, NEW u \in Uploads, GiveUp(u), faults' \in 0 .. MaxFaults
    PROVE  StorageInv'
<1> USE DEF StorageInv, TypeInv
<1>1. upload' \in [Uploads -> UploadStates]
  <2>1. upload[u] \in UploadStates
    BY DEF TypeOK
  <2>2. [upload[u] EXCEPT !.pc = "failed"] \in UploadStates
    BY <2>1 DEF UploadStates
  <2> QED
    BY <2>2 DEF TypeOK, GiveUp
<1>2. NoRows \in Transactions
    BY DEF NoRows, Transactions
<1>3. TypeOK'
    BY <1>1, <1>2 DEF TypeOK, GiveUp, db
<1>4. \A v \in Uploads : upload'[v].pc = "results" => v # u /\ upload[v].pc = "results"
    BY DEF TypeOK, UploadStates, GiveUp
<1>5. RowsNeedTheLock'
    BY <1>4 DEF RowsNeedTheLock, GiveUp
<1>6. HasProject'
    BY DEF TypeOK, UploadStates, HasProject, GiveUp
<1>7. OutputsCanBeRead' /\ PendingCanBeRead'
    BY DEF GiveUp, db, NoRows, OutputsCanBeRead, PendingCanBeRead, TextsOf
<1> QED
    BY <1>3, <1>5, <1>6, <1>7

-----------------------------------------------------------------------------
(* The steps of a prune, and what else goes on.                            *)

LEMMA Proceeds ==
    ASSUME TypeOK PROVE Proceed \in PruneStates
<1>1. PhaseAfter[prune.pc] \in DOMAIN PhaseAfter
    BY DEF TypeOK, PruneStates, PhaseAfter
<1> QED
    BY <1>1 DEF TypeOK, PruneStates, Proceed

\* A step that touches no upload and no transaction and leaves every text that
\* an output still refers to.
LEMMA RowsGo ==
    ASSUME StorageInv, TypeOK', UNCHANGED <<writer, tx, upload>>,
           outputs' \subseteq outputs,
           blobs' = blobs \/ (writer = NoWriter /\ outputs' = outputs /\ blobs' = RemainingBlobs)
    PROVE  StorageInv'
<1> USE DEF StorageInv, TypeInv
<1>1. HasProject' /\ RowsNeedTheLock'
    BY DEF HasProject, RowsNeedTheLock
<1>2. CASE blobs' = blobs
    BY <1>1, <1>2 DEF OutputsCanBeRead, PendingCanBeRead, TextsOf
<1>3. CASE writer = NoWriter /\ outputs' = outputs /\ blobs' = RemainingBlobs
  <2>1. tx'.outputs = {}
    BY <1>3 DEF RowsNeedTheLock, NoRows
  <2>2. \A o \in outputs : TextsOf(o) \subseteq blobs'
    BY <1>3 DEF OutputsCanBeRead, RemainingBlobs, ReferencedTexts
  <2> QED
    BY <1>1, <1>3, <2>1, <2>2 DEF OutputsCanBeRead, PendingCanBeRead, TextsOf
<1> QED
    BY <1>2, <1>3

LEMMA PruneSteps ==
    ASSUME StorageInv, PruneStep PROVE StorageInv'
<1> USE DEF StorageInv, TypeInv
<1>0. Proceed \in PruneStates
    BY Proceeds
<1>1. CASE PruneOutputs
  <2>1. TypeOK'
    BY <1>0, <1>1 DEF PruneOutputs, TypeOK
  <2> QED
    BY <1>1, <2>1, RowsGo DEF PruneOutputs
<1>2. CASE DeleteOrphanedOutputBlobs
  <2>1. TypeOK'
    BY <1>0, <1>2 DEF DeleteOrphanedOutputBlobs, RemainingBlobs, TypeOK
  <2> QED
    BY <1>2, <2>1, RowsGo DEF DeleteOrphanedOutputBlobs, LockIsFree
<1>3. CASE SelectArtifacts
  <2>1. PICK cutoff \in Cutoffs(RunRetention) :
          prune' = [Proceed EXCEPT
                      !.cutoff = cutoff,
                      !.paths = {a.path : a \in {b \in artifacts : b.run \in ExpiredIds(cutoff)}}]
    BY <1>3 DEF SelectArtifacts
  <2>2. {a.path : a \in {b \in artifacts : b.run \in ExpiredIds(cutoff)}} \in SUBSET Paths
    BY DEF TypeOK, ArtifactRow
  <2>3. cutoff \in Nat
    BY DEF Cutoffs, TypeOK
  <2>4. prune' \in PruneStates
    BY <1>0, <2>1, <2>2, <2>3 DEF PruneStates
  <2>5. TypeOK'
    BY <1>3, <2>4 DEF SelectArtifacts, TypeOK, db
  <2> QED
    BY <1>3, <2>5, RowsGo DEF SelectArtifacts, db
<1>4. CASE PruneRuns
  <2>1. TypeOK'
    BY <1>0, <1>4 DEF PruneRuns, DeleteRuns, TypeOK
  <2> QED
    BY <1>4, <2>1, RowsGo DEF PruneRuns, DeleteRuns
<1>5. CASE RemoveFile
  <2>1. prune' \in PruneStates /\ disk' \subseteq disk
    BY <1>5 DEF RemoveFile, TypeOK, PruneStates
  <2>2. TypeOK'
    BY <1>5, <2>1 DEF RemoveFile, TypeOK, db
  <2> QED
    BY <1>5, <2>2, RowsGo DEF RemoveFile, db
<1>6. CASE EndPrune
  <2>1. prune' \in PruneStates
    BY <1>0, <1>6 DEF EndPrune, TypeOK, PruneStates
  <2>2. TypeOK'
    BY <1>6, <2>1 DEF EndPrune, TypeOK, db
  <2> QED
    BY <1>6, <2>2, RowsGo DEF EndPrune, db
<1> QED
    BY <1>1, <1>2, <1>3, <1>4, <1>5, <1>6 DEF PruneStep

LEMMA PruneFailsStep ==
    ASSUME StorageInv, PruneFails PROVE StorageInv'
<1> USE DEF StorageInv, TypeInv
<1>1. prune' \in PruneStates
    BY DEF PruneFails, TypeOK, PruneStates, PhaseAfter
<1>2. faults' \in 0 .. MaxFaults
    BY StorageAssumption DEF PruneFails, TypeOK
<1>3. TypeOK'
    BY <1>1, <1>2 DEF PruneFails, TypeOK, db
<1> QED
    BY <1>3, RowsGo DEF PruneFails, db

LEMMA DeleteProjectStep ==
    ASSUME StorageInv, NEW p \in Projects, DeleteProject(p) PROVE StorageInv'
<1> USE DEF StorageInv, TypeInv
<1>1. TypeOK'
    BY DEF DeleteProject, DeleteRuns, TypeOK
<1> QED
    BY <1>1, RowsGo DEF DeleteProject, DeleteRuns

LEMMA TickStep ==
    ASSUME StorageInv, Tick PROVE StorageInv'
<1> USE DEF StorageInv, TypeInv
<1>1. TypeOK'
    BY DEF Tick, TypeOK, db
<1> QED
    BY <1>1, RowsGo DEF Tick, db

LEMMA CrashStep ==
    ASSUME StorageInv, Crash PROVE StorageInv'
<1> USE DEF StorageInv, TypeInv
<1>1. upload' \in [Uploads -> UploadStates]
  <2>1. \A u \in Uploads : [upload[u] EXCEPT !.pc = "failed"] \in UploadStates
    BY DEF TypeOK, UploadStates
  <2> QED
    BY <2>1 DEF Crash, TypeOK
<1>2. tx' \in Transactions
    BY DEF Crash, NoRows, Transactions
<1>3. faults' \in 0 .. MaxFaults
    BY StorageAssumption DEF Crash, TypeOK
<1>4. TypeOK'
    BY <1>1, <1>2, <1>3 DEF Crash, TypeOK, db
<1>5. \A u \in Uploads : upload'[u].pc \notin {"files", "results"}
    BY DEF Crash, TypeOK, UploadStates
<1>6. HasProject' /\ RowsNeedTheLock'
    BY <1>5 DEF HasProject, RowsNeedTheLock, Crash
<1>7. OutputsCanBeRead' /\ PendingCanBeRead'
    BY DEF Crash, db, NoRows, OutputsCanBeRead, PendingCanBeRead, TextsOf
<1> QED
    BY <1>4, <1>6, <1>7

-----------------------------------------------------------------------------
(* The theorems.                                                           *)

LEMMA StorageNext == StorageInv /\ [Next]_vars => StorageInv'
<1> SUFFICES ASSUME StorageInv, [Next]_vars PROVE StorageInv'
    OBVIOUS
<1>1. CASE \E u \in Uploads : StartUpload(u) \/ UploadStep(u) \/ UploadFails(u)
  <2> SUFFICES ASSUME NEW u \in Uploads, StartUpload(u) \/ UploadStep(u) \/ UploadFails(u)
               PROVE  StorageInv'
    BY <1>1
  <2>1. CASE RefuseRun(u)
    BY <2>1, GiveUpStep DEF RefuseRun, StorageInv, TypeInv, TypeOK
  <2>2. CASE UploadFails(u)
    <3>1. faults' \in 0 .. MaxFaults
      BY <2>2, StorageAssumption DEF UploadFails, StorageInv, TypeInv, TypeOK
    <3> QED
      BY <2>2, <3>1, GiveUpStep DEF UploadFails
  <2> QED
    BY <2>1, <2>2, StartUploadStep, StoreArtifactStep, BeginRunStep, InsertResultStep,
       CommitStep DEF UploadStep
<1>2. CASE PruneStep
    BY <1>2, PruneSteps
<1>3. CASE PruneFails
    BY <1>3, PruneFailsStep
<1>4. CASE \E p \in Projects : DeleteProject(p)
    BY <1>4, DeleteProjectStep
<1>5. CASE Crash
    BY <1>5, CrashStep
<1>6. CASE Tick
    BY <1>6, TickStep
<1>7. CASE UNCHANGED vars
  <2>1. TypeOK'
    BY <1>7 DEF vars, db, StorageInv, TypeInv, TypeOK
  <2> QED
    BY <1>7, <2>1, RowsGo DEF vars, db
<1> QED
    BY <1>1, <1>2, <1>3, <1>4, <1>5, <1>6, <1>7 DEF Next

\* Every reachable state is well typed, with any number of uploads, texts,
\* files, faults and prunes.
THEOREM StorageTypeCorrect == Spec => []TypeOK
<1>1. StorageInv => TypeOK
    BY DEF StorageInv, TypeInv
<1> QED
    BY <1>1, StorageInit, StorageNext, PTL DEF Spec

\* No stored output ever reads as empty because a blob it shares has been
\* collected, whatever uploads and prunes, crashes and deletions overlap.
THEOREM OutputsStayReadable == Spec => []OutputsCanBeRead
<1>1. StorageInv => OutputsCanBeRead
    BY DEF StorageInv
<1> QED
    BY <1>1, StorageInit, StorageNext, PTL DEF Spec

-----------------------------------------------------------------------------
(* What the tables and the open transaction have to do with the handlers.  *)

IsRecorded(u) == upload[u].pc = "recorded"

\* Who holds the lock inserts results.
LockIsHeld == \A u \in Uploads : writer = u => upload[u].pc = "results"

\* Rows are there only of uploads that have been recorded, each of them once.
RunsAreRecorded ==
    /\ \A r \in runs : IsRecorded(r.id)
    /\ \A r, q \in runs : r.id = q.id => r = q
    /\ \A a \in artifacts : IsRecorded(a.run)
    /\ \A o \in outputs : IsRecorded(o.run)

\* The artifacts of a run are all there or none, and go with the run.
ArtifactsAreComplete ==
    /\ \A a \in artifacts : \E r \in runs : r.id = a.run
    /\ \A a \in artifacts : a \in ArtifactRows(a.run) /\ ArtifactRows(a.run) \subseteq artifacts

\* The open transaction inserts rows of its own upload only.
PendingRows ==
    \A u \in Uploads : writer = u =>
        /\ tx.runs = {[id |-> u, project |-> upload[u].project,
                       uploadedAt |-> upload[u].uploadedAt]}
        /\ tx.artifacts = ArtifactRows(u)
        /\ \A o \in tx.outputs : o.run = u

RowsInv == LockIsHeld /\ RunsAreRecorded /\ ArtifactsAreComplete /\ PendingRows

\* What a handler has received stays as it is, and what it has recorded too.
LEMMA UploadsKeepTheirReports ==
    ASSUME TypeOK, [Next]_vars, NEW u \in Uploads, upload[u].pc # "idle"
    PROVE  /\ upload'[u].report = upload[u].report
           /\ upload'[u].project = upload[u].project
           /\ upload'[u].uploadedAt = upload[u].uploadedAt
           /\ upload'[u].pc # "idle"
           /\ IsRecorded(u) => IsRecorded(u)'
<1>1. /\ upload \in [Uploads -> UploadStates]
      /\ upload[u] \in UploadStates
    BY DEF TypeOK
<1>2. ASSUME NEW v \in Uploads, StartUpload(v) \/ UploadStep(v) \/ UploadFails(v)
      PROVE  /\ upload'[u].report = upload[u].report
             /\ upload'[u].project = upload[u].project
             /\ upload'[u].uploadedAt = upload[u].uploadedAt
             /\ upload'[u].pc # "idle"
             /\ IsRecorded(u) => IsRecorded(u)'
  <2>1. CASE StartUpload(v)
    BY <1>1, <2>1 DEF StartUpload, UploadStates, IsRecorded
  <2>2. CASE StoreArtifact(v)
    BY <1>1, <2>2 DEF StoreArtifact, UploadStates, IsRecorded
  <2>3. CASE BeginRun(v)
    BY <1>1, <2>3 DEF BeginRun, UploadStates, IsRecorded
  <2>4. CASE InsertResult(v)
    BY <1>1, <2>4 DEF InsertResult, UploadStates, IsRecorded
  <2>5. CASE Commit(v)
    BY <1>1, <2>5 DEF Commit, UploadStates, IsRecorded
  <2>6. CASE RefuseRun(v) \/ UploadFails(v)
    BY <1>1, <2>6 DEF RefuseRun, UploadFails, GiveUp, UploadStates, IsRecorded
  <2> QED
    BY <1>2, <2>1, <2>2, <2>3, <2>4, <2>5, <2>6 DEF UploadStep
<1>3. CASE Crash
    BY <1>1, <1>3 DEF Crash, UploadStates, IsRecorded
<1>4. CASE UNCHANGED upload
    BY <1>4 DEF IsRecorded
<1>5. PruneStep \/ PruneFails \/ Tick \/ UNCHANGED vars => UNCHANGED upload
    BY DEF PruneStep, PruneOutputs, DeleteOrphanedOutputBlobs, SelectArtifacts, PruneRuns,
           RemoveFile, EndPrune, PruneFails, Tick, vars
<1>6. (\E p \in Projects : DeleteProject(p)) => UNCHANGED upload
    BY DEF DeleteProject
<1> QED
    BY <1>2, <1>3, <1>4, <1>5, <1>6 DEF Next

\* Only the report tells which files of an upload are kept, and where.
LEMMA SameReportSameFiles ==
    ASSUME NEW u \in Uploads, upload'[u].report = upload[u].report
    PROVE  /\ ArtifactRows(u)' = ArtifactRows(u)
           /\ RetainedFiles(upload[u].report)' = RetainedFiles(upload[u].report)
           /\ \A i : Path(u, i)' = Path(u, i)
<1>1. \A i : Path(u, i)' = Path(u, i)
    BY DEF Path
<1>2. RetainedFiles(upload[u].report)' = RetainedFiles(upload[u].report)
    BY DEF RetainedFiles, ReadFiles
<1> QED
    BY <1>1, <1>2 DEF ArtifactRows

\* A step that leaves the transaction alone and takes rows of whole runs away.
LEMMA WholeRunsGo ==
    ASSUME TypeOK, RowsInv, [Next]_vars, UNCHANGED <<writer, tx>>, NEW ids,
           \A u \in Uploads : writer = u => upload'[u].pc = "results",
           runs' = {r \in runs : r.id \notin ids},
           artifacts' = {a \in artifacts : a.run \notin ids},
           outputs' \subseteq outputs
    PROVE  RowsInv'
<1> USE DEF RowsInv
<1>1. \A u \in Uploads : IsRecorded(u) => IsRecorded(u)' /\ ArtifactRows(u)' = ArtifactRows(u)
    BY UploadsKeepTheirReports, SameReportSameFiles DEF IsRecorded
<1>2. LockIsHeld'
    BY DEF LockIsHeld
<1>3. /\ \A r \in runs : r.id \in Uploads
      /\ \A a \in artifacts : a.run \in Uploads
      /\ \A o \in outputs : o.run \in Uploads
    BY DEF TypeOK, RunRows, ArtifactRow, OutputRows
<1>4. RunsAreRecorded'
  <2>1. \A r \in runs' : r \in runs
    OBVIOUS
  <2>2. \A a \in artifacts' : a \in artifacts
    OBVIOUS
  <2>3. \A u \in Uploads : IsRecorded(u) => IsRecorded(u)'
    BY <1>1
  <2>4. /\ \A r \in runs' : IsRecorded(r.id)'
        /\ \A a \in artifacts' : IsRecorded(a.run)'
        /\ \A o \in outputs' : IsRecorded(o.run)'
    BY <2>1, <2>2, <2>3, <1>3 DEF RunsAreRecorded
  <2> QED
    BY <2>1, <2>4 DEF RunsAreRecorded, IsRecorded
<1>5. ArtifactsAreComplete'
  <2> SUFFICES ASSUME NEW a \in artifacts'
               PROVE  /\ \E r \in runs' : r.id = a.run
                      /\ a \in ArtifactRows(a.run)' /\ ArtifactRows(a.run)' \subseteq artifacts'
    BY DEF ArtifactsAreComplete, ArtifactRows, Path
  <2>1. a \in artifacts /\ a.run \notin ids /\ a.run \in Uploads /\ IsRecorded(a.run)
    BY <1>3 DEF RunsAreRecorded
  <2>2. ArtifactRows(a.run)' = ArtifactRows(a.run)
    BY <1>1, <2>1
  <2>3. \A b \in ArtifactRows(a.run) : b.run = a.run
    BY DEF ArtifactRows
  <2>4. ArtifactRows(a.run) \subseteq artifacts /\ a \in ArtifactRows(a.run)
    BY <2>1 DEF ArtifactsAreComplete
  <2>5. PICK r \in runs : r.id = a.run
    BY <2>1 DEF ArtifactsAreComplete
  <2> QED
    BY <2>1, <2>2, <2>3, <2>4, <2>5
<1>6. PendingRows'
  <2> SUFFICES ASSUME NEW u \in Uploads, writer = u
               PROVE  /\ tx.runs = {[id |-> u, project |-> upload'[u].project,
                                     uploadedAt |-> upload'[u].uploadedAt]}
                      /\ tx.artifacts = ArtifactRows(u)'
                      /\ \A o \in tx.outputs : o.run = u
    BY DEF PendingRows
  <2>1. upload[u].pc # "idle"
    BY DEF LockIsHeld
  <2> QED
    BY <2>1, UploadsKeepTheirReports, SameReportSameFiles DEF PendingRows
<1> QED
    BY <1>2, <1>4, <1>5, <1>6

\* A handler that does not commit changes no table, and keeps its reports.
LEMMA TablesStay ==
    ASSUME TypeOK, RowsInv, [Next]_vars, UNCHANGED db
    PROVE  RunsAreRecorded' /\ ArtifactsAreComplete'
<1> USE DEF RowsInv
<1>1. \A u \in Uploads : IsRecorded(u) => IsRecorded(u)' /\ ArtifactRows(u)' = ArtifactRows(u)
    BY UploadsKeepTheirReports, SameReportSameFiles DEF IsRecorded
<1>2. /\ \A r \in runs : r.id \in Uploads
      /\ \A a \in artifacts : a.run \in Uploads
      /\ \A o \in outputs : o.run \in Uploads
    BY DEF TypeOK, RunRows, ArtifactRow, OutputRows
<1>3. /\ \A r \in runs : IsRecorded(r.id)'
      /\ \A a \in artifacts : IsRecorded(a.run)'
      /\ \A o \in outputs : IsRecorded(o.run)'
    BY <1>1, <1>2 DEF RunsAreRecorded
<1>4. RunsAreRecorded'
    BY <1>3 DEF RunsAreRecorded, IsRecorded, db
<1>5. ArtifactsAreComplete'
  <2> SUFFICES ASSUME NEW a \in artifacts
               PROVE  /\ \E r \in runs : r.id = a.run
                      /\ a \in ArtifactRows(a.run)' /\ ArtifactRows(a.run)' \subseteq artifacts
    BY DEF ArtifactsAreComplete, ArtifactRows, Path, db
  <2>1. IsRecorded(a.run) /\ a.run \in Uploads
    BY <1>2 DEF RunsAreRecorded
  <2>2. ArtifactRows(a.run)' = ArtifactRows(a.run)
    BY <1>1, <2>1
  <2> QED
    BY <2>2 DEF ArtifactsAreComplete
<1> QED
    BY <1>4, <1>5

LEMMA RowsOfHandlers ==
    ASSUME StorageInv, RowsInv, [Next]_vars, NEW u \in Uploads,
           StartUpload(u) \/ UploadStep(u) \/ UploadFails(u)
    PROVE  RowsInv'
<1> USE DEF StorageInv, TypeInv, RowsInv
<1>1. /\ upload \in [Uploads -> UploadStates]
      /\ upload[u] \in UploadStates
      /\ \A v \in Uploads : upload[v].pc # "idle" =>
            /\ upload'[v].project = upload[v].project
            /\ upload'[v].uploadedAt = upload[v].uploadedAt
            /\ ArtifactRows(v)' = ArtifactRows(v)
    BY UploadsKeepTheirReports, SameReportSameFiles DEF TypeOK
<1>2. u # NoWriter
    BY StorageAssumption
<1>3. ASSUME UNCHANGED <<writer, tx>>, \A v \in Uploads : writer = v => upload'[v].pc = "results"
      PROVE  LockIsHeld' /\ PendingRows'
    BY <1>1, <1>3 DEF LockIsHeld, PendingRows
<1>4. CASE StartUpload(u) \/ StoreArtifact(u)
  <2>1. UNCHANGED <<writer, tx, db>>
    BY <1>4 DEF StartUpload, StoreArtifact
  <2>2. \A v \in Uploads : writer = v => upload'[v].pc = "results"
    BY <1>1, <1>4 DEF StartUpload, StoreArtifact, LockIsHeld, UploadStates
  <2> QED
    BY <1>3, <2>1, <2>2, TablesStay
<1>5. CASE BeginRun(u)
  <2>1. writer = NoWriter /\ writer' = u /\ upload'[u].pc = "results" /\ UNCHANGED db
    BY <1>1, <1>5 DEF BeginRun, LockIsFree, UploadStates
  <2>2. /\ tx'.runs = {[id |-> u, project |-> upload[u].project,
                        uploadedAt |-> upload[u].uploadedAt]}
        /\ tx'.artifacts = ArtifactRows(u) /\ tx'.outputs = {}
    BY <1>5 DEF BeginRun
  <2>3. upload[u].pc # "idle"
    BY <1>5 DEF BeginRun
  <2>4. PendingRows'
    BY <1>1, <2>1, <2>2, <2>3 DEF PendingRows
  <2> QED
    BY <2>1, <2>4, TablesStay DEF LockIsHeld
<1>6. CASE InsertResult(u)
  <2>1. writer = u /\ writer' = u /\ UNCHANGED db /\ upload'[u].pc = "results"
    BY <1>1, <1>6 DEF InsertResult, RowsNeedTheLock, UploadStates
  <2>2. /\ tx'.runs = tx.runs /\ tx'.artifacts = tx.artifacts
        /\ tx'.outputs \subseteq tx.outputs \cup {OutputRow(u, upload[u].step)}
    BY <1>6 DEF InsertResult, TypeOK, Transactions
  <2>3. OutputRow(u, upload[u].step).run = u
    BY DEF OutputRow
  <2>4. upload[u].pc # "idle"
    BY <1>6 DEF InsertResult
  <2>5. PendingRows'
    BY <1>1, <2>1, <2>2, <2>3, <2>4 DEF PendingRows
  <2> QED
    BY <2>1, <2>5, TablesStay DEF LockIsHeld
<1>7. CASE Commit(u)
  <2>1. /\ writer = u /\ writer' = NoWriter /\ ~ IsRecorded(u) /\ IsRecorded(u)'
        /\ upload[u].pc # "idle"
    BY <1>1, <1>7 DEF Commit, RowsNeedTheLock, IsRecorded, UploadStates
  <2>2. LockIsHeld' /\ PendingRows'
    BY <2>1, StorageAssumption DEF LockIsHeld, PendingRows
  <2>3. /\ tx.runs = {[id |-> u, project |-> upload[u].project,
                       uploadedAt |-> upload[u].uploadedAt]}
        /\ tx.artifacts = ArtifactRows(u)
        /\ \A o \in tx.outputs : o.run = u
        /\ \A a \in ArtifactRows(u) : a.run = u
    BY <2>1 DEF PendingRows, ArtifactRows
  <2>4. /\ \A r \in runs : r.id \in Uploads /\ IsRecorded(r.id)
        /\ \A a \in artifacts : a.run \in Uploads /\ IsRecorded(a.run)
        /\ \A o \in outputs : o.run \in Uploads /\ IsRecorded(o.run)
    BY DEF TypeOK, RunRows, ArtifactRow, OutputRows, RunsAreRecorded
  <2>5. \A v \in Uploads : IsRecorded(v) => IsRecorded(v)' /\ v # u
    BY <2>1, UploadsKeepTheirReports DEF IsRecorded
  <2>a. /\ runs' = runs \cup tx.runs /\ artifacts' = artifacts \cup tx.artifacts
        /\ outputs' = outputs \cup tx.outputs
    BY <1>7 DEF Commit
  <2>6. /\ \A r \in runs' : r \in runs \/ r = [id |-> u, project |-> upload[u].project,
                                               uploadedAt |-> upload[u].uploadedAt]
        /\ \A a \in artifacts' : a \in artifacts \/ a \in ArtifactRows(u)
        /\ \A o \in outputs' : o \in outputs \/ o.run = u
        /\ artifacts' = artifacts \cup ArtifactRows(u)
        /\ runs \subseteq runs'
    BY <2>3, <2>a
  <2>b. \E r \in runs' : r.id = u
    <3> DEFINE row == [id |-> u, project |-> upload[u].project,
                       uploadedAt |-> upload[u].uploadedAt]
    <3>1. row.id = u
      OBVIOUS
    <3>2. row \in tx.runs
      BY <2>3
    <3> QED
      BY <2>a, <3>1, <3>2
  <2>7. /\ \A r \in runs' : r.id \in Uploads /\ IsRecorded(r.id)'
        /\ \A a \in artifacts' : IsRecorded(a.run)'
        /\ \A o \in outputs' : IsRecorded(o.run)'
    BY <2>1, <2>3, <2>4, <2>5, <2>6
  <2>8. \A r, q \in runs' : r.id = q.id => r = q
    BY <2>4, <2>5, <2>6 DEF RunsAreRecorded
  <2>9. RunsAreRecorded'
    BY <2>7, <2>8 DEF RunsAreRecorded, IsRecorded
  <2>10. ArtifactsAreComplete'
    <3> SUFFICES ASSUME NEW a \in artifacts'
                 PROVE  /\ \E r \in runs' : r.id = a.run
                        /\ a \in ArtifactRows(a.run)' /\ ArtifactRows(a.run)' \subseteq artifacts'
      BY DEF ArtifactsAreComplete, ArtifactRows, Path
    <3>1. CASE a \in artifacts
      <4>1. ArtifactRows(a.run)' = ArtifactRows(a.run)
        BY <1>1, <2>4, <3>1 DEF IsRecorded
      <4> QED
        BY <2>6, <3>1, <4>1 DEF ArtifactsAreComplete
    <3>2. CASE a \in ArtifactRows(u)
      <4>1. a.run = u /\ ArtifactRows(u)' = ArtifactRows(u)
        BY <1>1, <2>1, <2>3, <3>2
      <4> QED
        BY <2>6, <2>b, <3>2, <4>1
    <3> QED
      BY <2>6, <3>1, <3>2
  <2> QED
    BY <2>2, <2>9, <2>10
<1>8. CASE RefuseRun(u) \/ UploadFails(u)
  <2>1. GiveUp(u)
    BY <1>8 DEF RefuseRun, UploadFails
  <2>2. UNCHANGED db
    BY <2>1 DEF GiveUp
  <2>3. LockIsHeld' /\ PendingRows'
    <3>1. CASE writer = u
      BY <2>1, <3>1, StorageAssumption DEF GiveUp, LockIsHeld, PendingRows
    <3>2. CASE writer # u
      <4>1. \A v \in Uploads : writer = v => upload'[v].pc = "results"
        BY <1>1, <2>1, <3>2 DEF GiveUp, LockIsHeld
      <4> QED
        BY <1>3, <2>1, <3>2, <4>1 DEF GiveUp
    <3> QED
      BY <3>1, <3>2
  <2> QED
    BY <2>2, <2>3, TablesStay
<1> QED
    BY <1>4, <1>5, <1>6, <1>7, <1>8 DEF UploadStep

LEMMA RowsOfOthers ==
    ASSUME StorageInv, RowsInv, [Next]_vars,
           \/ PruneStep \/ PruneFails \/ Crash \/ Tick \/ UNCHANGED vars
           \/ \E p \in Projects : DeleteProject(p)
    PROVE  RowsInv'
<1> USE DEF StorageInv, TypeInv
<1>1. ASSUME UNCHANGED <<writer, tx, upload, runs, artifacts>>, outputs' \subseteq outputs
      PROVE  RowsInv'
  <2> DEFINE ids == {}
  <2>1. /\ runs' = {r \in runs : r.id \notin ids}
        /\ artifacts' = {a \in artifacts : a.run \notin ids}
    BY <1>1
  <2> HIDE DEF ids
  <2>2. \A u \in Uploads : writer = u => upload'[u].pc = "results"
    BY <1>1 DEF RowsInv, LockIsHeld
  <2>3. TypeOK /\ UNCHANGED <<writer, tx>> /\ outputs' \subseteq outputs
    BY <1>1
  <2> QED
    BY <2>1, <2>2, <2>3, WholeRunsGo
<1>2. ASSUME UNCHANGED <<writer, tx, upload>>, NEW ids, DeleteRuns(ids)
      PROVE  RowsInv'
    BY <1>2, WholeRunsGo DEF DeleteRuns, RowsInv, LockIsHeld
<1>3. CASE PruneStep
  <2>1. CASE PruneRuns
    BY <1>2, <2>1 DEF PruneRuns
  <2>2. CASE ~ PruneRuns
    BY <1>1, <1>3, <2>2 DEF PruneStep, PruneOutputs, DeleteOrphanedOutputBlobs, SelectArtifacts,
                            RemoveFile, EndPrune, db
  <2> QED
    BY <2>1, <2>2
<1>4. CASE PruneFails \/ Tick \/ UNCHANGED vars
    BY <1>1, <1>4 DEF PruneFails, Tick, vars, db
<1>5. CASE \E p \in Projects : DeleteProject(p)
    BY <1>2, <1>5 DEF DeleteProject
<1>6. CASE Crash
  <2>1. UNCHANGED db /\ writer' = NoWriter
    BY <1>6 DEF Crash
  <2> QED
    BY <2>1, TablesStay, StorageAssumption DEF RowsInv, LockIsHeld, PendingRows
<1> QED
    BY <1>3, <1>4, <1>5, <1>6

-----------------------------------------------------------------------------
(* Files are written before their rows, and removed after them.            *)

\* Handlers at work, and those whose run is still there with its artifacts.
IsAtWork(u) == upload[u].pc \in {"files", "results"}
HasFiles(u) == IsAtWork(u) \/ \E a \in artifacts : a.run = u

IsOnlyOne(u, i) ==
    \A k \in RetainedFiles(upload[u].report) :
        upload[u].report.files[k].name = upload[u].report.files[i].name => k = i

\* What a handler should have written by now, it has.
FilesAreWritten ==
    \A u \in Uploads : HasFiles(u) =>
        \A i \in RetainedFiles(upload[u].report) :
            (upload[u].pc = "files" => i < upload[u].step) /\ IsOnlyOne(u, i) =>
                [path |-> Path(u, i), file |-> i] \in disk

\* A prune removes files of runs that it is about to delete, or has deleted.
RemovedAreExpired ==
    /\ prune.pc \in {"outputs", "outputBlobs", "select"} => prune.paths = {}
    /\ \A path \in prune.paths : IsRecorded(path[1])
    /\ prune.pc = "runs" => \A path \in prune.paths, a \in artifacts :
          a.run = path[1] => a.run \in ExpiredIds(prune.cutoff)
    /\ prune.pc \in {"runBlobs", "files"} => \A path \in prune.paths, a \in artifacts :
          a.run # path[1]

FilesInv == FilesAreWritten /\ RemovedAreExpired

\* Nothing is taken from an upload that still has files.
LEMMA FilesStay ==
    ASSUME NEW v \in Uploads, HasFiles(v), FilesAreWritten,
           upload'[v].report = upload[v].report,
           upload[v].pc = "files" => upload'[v].pc = "files" /\ upload'[v].step = upload[v].step,
           \A f \in disk : f.path[1] = v => f \in disk',
           NEW i \in RetainedFiles(upload'[v].report),
           upload'[v].pc = "files" => i < upload'[v].step,
           IsOnlyOne(v, i)'
    PROVE  [path |-> Path(v, i)', file |-> i] \in disk'
<1>1. /\ i \in RetainedFiles(upload[v].report)
      /\ Path(v, i)' = Path(v, i) /\ Path(v, i)[1] = v
      /\ IsOnlyOne(v, i)
    BY DEF RetainedFiles, ReadFiles, Path, IsOnlyOne
<1>2. upload[v].pc = "files" => i < upload[v].step
    OBVIOUS
<1>3. [path |-> Path(v, i), file |-> i] \in disk
    BY <1>1, <1>2 DEF FilesAreWritten
<1> QED
    BY <1>1, <1>3

LEMMA NoFilesAreLost ==
    ASSUME FilesAreWritten,
           \A v \in Uploads : HasFiles(v)' =>
              /\ HasFiles(v)
              /\ upload'[v].report = upload[v].report
              /\ upload[v].pc = "files" => upload'[v].pc = "files" /\ upload'[v].step = upload[v].step
              /\ \A f \in disk : f.path[1] = v => f \in disk'
    PROVE  FilesAreWritten'
<1> SUFFICES ASSUME NEW v \in Uploads, HasFiles(v)',
                    NEW i \in RetainedFiles(upload'[v].report),
                    upload'[v].pc = "files" => i < upload'[v].step, IsOnlyOne(v, i)'
             PROVE  [path |-> Path(v, i)', file |-> i] \in disk'
    BY DEF FilesAreWritten, RetainedFiles, ReadFiles
<1> QED
    BY FilesStay

\* Rows that come do not belong to a run of which files are being removed.
LEMMA RemovalGoesOn ==
    ASSUME TypeOK, RowsInv, RemovedAreExpired, [Next]_vars, UNCHANGED prune,
           runs \subseteq runs',
           \A a \in artifacts' : a \in artifacts \/ ~ IsRecorded(a.run)
    PROVE  RemovedAreExpired'
<1>1. ExpiredIds(prune.cutoff) \subseteq ExpiredIds(prune.cutoff)'
    BY DEF ExpiredIds, Expired
<1>2. \A path \in prune.paths : path[1] \in Uploads /\ IsRecorded(path[1])
    BY DEF TypeOK, PruneStates, Paths, RemovedAreExpired
<1>3. \A u \in Uploads : IsRecorded(u) => IsRecorded(u)'
    BY UploadsKeepTheirReports DEF IsRecorded
<1>4. \A path \in prune.paths : IsRecorded(path[1])'
    BY <1>2, <1>3
<1>5. \A path \in prune.paths, a \in artifacts' : a.run = path[1] => a \in artifacts
    BY <1>2
<1>6. /\ prune.pc = "runs" => \A path \in prune.paths, a \in artifacts' :
            a.run = path[1] => a.run \in ExpiredIds(prune.cutoff)'
      /\ prune.pc \in {"runBlobs", "files"} => \A path \in prune.paths, a \in artifacts' :
            a.run # path[1]
    BY <1>1, <1>5 DEF RemovedAreExpired
<1> QED
    BY <1>4, <1>6 DEF RemovedAreExpired, IsRecorded, ExpiredIds

LEMMA FilesOfHandlers ==
    ASSUME StorageInv, RowsInv, FilesInv, [Next]_vars, NEW u \in Uploads,
           StartUpload(u) \/ UploadStep(u) \/ UploadFails(u)
    PROVE  FilesInv'
<1> USE DEF StorageInv, TypeInv, FilesInv
<1>1. /\ upload \in [Uploads -> UploadStates]
      /\ upload[u] \in UploadStates
      /\ upload[u].report \in Reports \cup {NoReport}
    BY DEF TypeOK, UploadStates
<1>2. /\ \A a \in artifacts : a.run \in Uploads /\ IsRecorded(a.run)
      /\ \A v \in Uploads : IsRecorded(v) => ~ IsAtWork(v)
    BY DEF TypeOK, ArtifactRow, RowsInv, RunsAreRecorded, IsRecorded, IsAtWork
<1>3. ASSUME UNCHANGED <<prune, runs, artifacts>>
      PROVE  RemovedAreExpired'
    BY <1>3, RemovalGoesOn
<1>4. CASE StartUpload(u)
  <2>1. UNCHANGED <<prune, runs, artifacts, disk>>
    BY <1>4 DEF StartUpload, db
  <2>2. upload'[u].pc = "files" /\ upload'[u].step = 1
    BY <1>1, <1>4 DEF StartUpload
  <2>3. \A v \in Uploads : v # u => upload'[v] = upload[v]
    BY <1>1, <1>4 DEF StartUpload
  <2>4. upload'[u].report \in Reports
    BY <1>1, <1>4 DEF StartUpload
  <2>5. FilesAreWritten'
    <3> SUFFICES ASSUME NEW v \in Uploads, HasFiles(v)',
                        NEW i \in RetainedFiles(upload'[v].report),
                        upload'[v].pc = "files" => i < upload'[v].step, IsOnlyOne(v, i)'
                 PROVE  [path |-> Path(v, i)', file |-> i] \in disk'
      BY DEF FilesAreWritten, RetainedFiles, ReadFiles
    <3>1. CASE v = u
      BY <2>2, <2>4, <3>1, RetainedFileNames
    <3>2. CASE v # u
      <4>1. HasFiles(v)
        BY <2>1, <2>3, <3>2 DEF HasFiles, IsAtWork
      <4> QED
        BY <2>1, <2>3, <3>2, <4>1, FilesStay
    <3> QED
      BY <3>1, <3>2
  <2> QED
    BY <1>3, <2>1, <2>5
<1>5. CASE StoreArtifact(u)
  <2>1. PICK i \in FilesToStore(u) :
          /\ \A k \in FilesToStore(u) : i <= k
          /\ disk' = WriteFile(Path(u, i), i)
          /\ upload' = [upload EXCEPT ![u].step = i + 1]
    BY <1>5 DEF StoreArtifact
  <2>2. UNCHANGED <<prune, runs, artifacts>> /\ upload[u].pc = "files"
    BY <1>5 DEF StoreArtifact, db
  <2>3. /\ upload'[u].step = i + 1 /\ upload'[u].report = upload[u].report
        /\ upload'[u].pc = upload[u].pc
        /\ \A v \in Uploads : v # u => upload'[v] = upload[v]
    BY <1>1, <2>1 DEF UploadStates
  <2>4. Path(u, i) = <<u, upload[u].report.files[i].name>>
    BY DEF Path
  <2>5. FilesAreWritten'
    <3> SUFFICES ASSUME NEW v \in Uploads, HasFiles(v)',
                        NEW k \in RetainedFiles(upload'[v].report),
                        upload'[v].pc = "files" => k < upload'[v].step, IsOnlyOne(v, k)'
                 PROVE  [path |-> Path(v, k)', file |-> k] \in disk'
      BY DEF FilesAreWritten, RetainedFiles, ReadFiles
    <3>1. CASE v # u
      <4>1. HasFiles(v)
        BY <2>2, <2>3, <3>1 DEF HasFiles, IsAtWork
      <4>2. \A f \in disk : f.path[1] = v => f \in disk'
        BY <2>1, <2>4, <3>1 DEF WriteFile
      <4> QED
        BY <2>3, <3>1, <4>1, <4>2, FilesStay
    <3>2. CASE v = u /\ k = i
      BY <2>1, <2>3, <3>2 DEF WriteFile, Path
    <3>3. CASE v = u /\ k # i
      <4>1. /\ k \in RetainedFiles(upload[u].report) /\ IsOnlyOne(u, k)
            /\ k < i + 1 /\ k \in Nat /\ i \in Nat /\ upload[u].step \in Nat
        BY <1>1, <2>1, <2>2, <2>3, <3>3, RetainedFileNames
           DEF RetainedFiles, ReadFiles, IsOnlyOne, FilesToStore, UploadStates
      <4>2. k < upload[u].step
        BY <2>1, <3>3, <4>1 DEF FilesToStore
      <4>3. [path |-> Path(u, k), file |-> k] \in disk
        BY <2>2, <4>1, <4>2 DEF FilesAreWritten, HasFiles, IsAtWork
      <4>4. upload[u].report.files[i].name # upload[u].report.files[k].name
        BY <2>1, <3>3, <4>1 DEF IsOnlyOne, FilesToStore
      <4>5. Path(u, k) # Path(u, i)
        BY <4>4 DEF Path
      <4>6. Path(u, k)' = Path(u, k)
        BY <2>3 DEF Path
      <4> QED
        BY <2>1, <3>3, <4>3, <4>5, <4>6 DEF WriteFile
    <3> QED
      BY <3>1, <3>2, <3>3
  <2> QED
    BY <1>3, <2>2, <2>5
<1>6. CASE BeginRun(u)
  <2>1. /\ UNCHANGED <<prune, runs, artifacts, disk>> /\ upload[u].pc = "files"
        /\ FilesToStore(u) = {}
    BY <1>6 DEF BeginRun, db
  <2>2. /\ upload'[u].report = upload[u].report /\ upload'[u].pc = "results"
        /\ \A v \in Uploads : v # u => upload'[v] = upload[v]
    BY <1>1, <1>6 DEF BeginRun, UploadStates
  <2>3. FilesAreWritten'
    <3> SUFFICES ASSUME NEW v \in Uploads, HasFiles(v)',
                        NEW i \in RetainedFiles(upload'[v].report),
                        upload'[v].pc = "files" => i < upload'[v].step, IsOnlyOne(v, i)'
                 PROVE  [path |-> Path(v, i)', file |-> i] \in disk'
      BY DEF FilesAreWritten, RetainedFiles, ReadFiles
    <3>1. CASE v # u
      <4>1. HasFiles(v)
        BY <2>1, <2>2, <3>1 DEF HasFiles, IsAtWork
      <4> QED
        BY <2>1, <2>2, <3>1, <4>1, FilesStay
    <3>2. CASE v = u
      <4>1. i \in RetainedFiles(upload[u].report) /\ IsOnlyOne(u, i) /\ Path(u, i)' = Path(u, i)
        BY <2>2, <3>2 DEF RetainedFiles, ReadFiles, IsOnlyOne, Path
      <4>2. i < upload[u].step
        BY <1>1, <2>1, <4>1, RetainedFileNames DEF FilesToStore, UploadStates
      <4> QED
        BY <2>1, <3>2, <4>1, <4>2 DEF FilesAreWritten, HasFiles, IsAtWork
    <3> QED
      BY <3>1, <3>2
  <2> QED
    BY <1>3, <2>1, <2>3
<1>7. CASE InsertResult(u)
  <2>1. UNCHANGED <<prune, runs, artifacts, disk>> /\ upload[u].pc = "results"
    BY <1>7 DEF InsertResult, db
  <2>2. /\ upload'[u].report = upload[u].report /\ upload'[u].pc = "results"
        /\ \A v \in Uploads : v # u => upload'[v] = upload[v]
    BY <1>1, <1>7 DEF InsertResult, UploadStates
  <2> QED
    BY <1>3, <2>1, <2>2, NoFilesAreLost DEF HasFiles, IsAtWork
<1>8. CASE Commit(u)
  <2>1. /\ UNCHANGED <<prune, disk>> /\ upload[u].pc = "results" /\ writer = u
        /\ runs \subseteq runs' /\ artifacts' = artifacts \cup tx.artifacts
    BY <1>8 DEF Commit, RowsNeedTheLock
  <2>2. /\ upload'[u].report = upload[u].report /\ upload'[u].pc = "recorded"
        /\ \A v \in Uploads : v # u => upload'[v] = upload[v]
    BY <1>1, <1>8 DEF Commit, UploadStates
  <2>3. \A a \in artifacts' : a \in artifacts \/ a.run = u
    BY <2>1 DEF RowsInv, PendingRows, ArtifactRows
  <2>4. ~ IsRecorded(u)
    BY <2>1 DEF IsRecorded
  <2>5. \A v \in Uploads : HasFiles(v)' => HasFiles(v)
    BY <2>1, <2>2, <2>3 DEF HasFiles, IsAtWork
  <2>6. FilesAreWritten'
    BY <2>1, <2>2, <2>5, NoFilesAreLost
  <2>7. \A a \in artifacts' : a \in artifacts \/ ~ IsRecorded(a.run)
    BY <2>3, <2>4
  <2>8. RemovedAreExpired'
    BY <2>1, <2>7, RemovalGoesOn
  <2> QED
    BY <2>6, <2>8
<1>9. CASE RefuseRun(u) \/ UploadFails(u)
  <2>1. UNCHANGED <<prune, runs, artifacts, disk>> /\ IsAtWork(u)
    BY <1>9 DEF RefuseRun, UploadFails, GiveUp, db, IsAtWork
  <2>2. /\ upload'[u].pc = "failed"
        /\ \A v \in Uploads : v # u => upload'[v] = upload[v]
    BY <1>1, <1>9 DEF RefuseRun, UploadFails, GiveUp, UploadStates
  <2>3. \A v \in Uploads : HasFiles(v)' => v # u /\ HasFiles(v)
    BY <1>2, <2>1, <2>2 DEF HasFiles, IsAtWork
  <2>4. FilesAreWritten'
    BY <2>1, <2>2, <2>3, NoFilesAreLost
  <2> QED
    BY <1>3, <2>1, <2>4
<1> QED
    BY <1>4, <1>5, <1>6, <1>7, <1>8, <1>9 DEF UploadStep

LEMMA FilesOfPrunes ==
    ASSUME StorageInv, RowsInv, FilesInv, [Next]_vars, PruneStep \/ PruneFails
    PROVE  FilesInv'
<1> USE DEF StorageInv, TypeInv, FilesInv
<1>1. UNCHANGED upload
    BY DEF PruneStep, PruneOutputs, DeleteOrphanedOutputBlobs, SelectArtifacts, PruneRuns,
           RemoveFile, EndPrune, PruneFails
<1>2. artifacts' \subseteq artifacts
    BY DEF PruneStep, PruneOutputs, DeleteOrphanedOutputBlobs, SelectArtifacts, PruneRuns,
           DeleteRuns, RemoveFile, EndPrune, PruneFails, db
<1>3. \A v \in Uploads : HasFiles(v)' => HasFiles(v)
    BY <1>1, <1>2 DEF HasFiles, IsAtWork
<1>4. ASSUME UNCHANGED disk PROVE FilesAreWritten'
    BY <1>1, <1>3, <1>4, NoFilesAreLost
<1>5. prune \in PruneStates
    BY DEF TypeOK
<1>6. \A a \in artifacts : a.path[1] = a.run /\ IsRecorded(a.run)
    BY DEF RowsInv, ArtifactsAreComplete, RunsAreRecorded, ArtifactRows, Path
<1>7. CASE PruneOutputs \/ DeleteOrphanedOutputBlobs
  <2>1. UNCHANGED <<disk, runs, artifacts>> /\ prune' = Proceed
    BY <1>7 DEF PruneOutputs, DeleteOrphanedOutputBlobs
  <2>2. /\ prune'.paths = prune.paths
        /\ prune.pc = "outputs" => prune'.pc = "outputBlobs"
        /\ prune.pc = "outputBlobs" => prune'.pc = "select"
        /\ prune.pc = "runBlobs" => prune'.pc = "files"
    BY <1>5, <2>1 DEF Proceed, PhaseAfter, PruneStates
  <2>3. RemovedAreExpired'
    BY <1>1, <1>7, <2>1, <2>2
       DEF RemovedAreExpired, IsRecorded, PruneOutputs, DeleteOrphanedOutputBlobs
  <2> QED
    BY <1>4, <2>1, <2>3
<1>8. CASE SelectArtifacts
  <2>1. PICK cutoff \in Cutoffs(RunRetention) :
          prune' = [Proceed EXCEPT
                      !.cutoff = cutoff,
                      !.paths = {a.path : a \in {b \in artifacts : b.run \in ExpiredIds(cutoff)}}]
    BY <1>8 DEF SelectArtifacts
  <2>2. UNCHANGED <<disk, runs, artifacts>> /\ prune.pc = "select"
    BY <1>8 DEF SelectArtifacts, db
  <2>3. /\ prune'.pc = "runs" /\ prune'.cutoff = cutoff
        /\ prune'.paths = {a.path : a \in {b \in artifacts : b.run \in ExpiredIds(cutoff)}}
    BY <1>5, <2>1, <2>2 DEF Proceed, PhaseAfter, PruneStates
  <2>4. \A path \in prune'.paths : \E a \in artifacts :
            path[1] = a.run /\ a.run \in ExpiredIds(cutoff) /\ IsRecorded(a.run)
    BY <1>6, <2>3
  <2>5. ExpiredIds(prune.cutoff)' = ExpiredIds(cutoff)
    BY <2>2, <2>3 DEF ExpiredIds, Expired
  <2>6. RemovedAreExpired'
    BY <1>1, <2>2, <2>3, <2>4, <2>5 DEF RemovedAreExpired, IsRecorded
  <2> QED
    BY <1>4, <2>2, <2>6
<1>9. CASE PruneRuns
  <2>1. /\ prune.pc = "runs" /\ prune' = Proceed /\ UNCHANGED disk
        /\ artifacts' = {a \in artifacts : a.run \notin ExpiredIds(prune.cutoff)}
    BY <1>9 DEF PruneRuns, DeleteRuns
  <2>2. prune'.pc = "runBlobs" /\ prune'.paths = prune.paths
    BY <1>5, <2>1 DEF Proceed, PhaseAfter, PruneStates
  <2>3. RemovedAreExpired'
    BY <1>1, <2>1, <2>2 DEF RemovedAreExpired, IsRecorded
  <2> QED
    BY <1>4, <2>1, <2>3
<1>10. CASE RemoveFile
  <2>1. PICK path \in prune.paths :
          /\ disk' = {f \in disk : f.path # path}
          /\ prune' = [prune EXCEPT !.paths = prune.paths \ {path}]
    BY <1>10 DEF RemoveFile
  <2>2. prune.pc = "files" /\ UNCHANGED <<runs, artifacts>>
    BY <1>10 DEF RemoveFile, db
  <2>3. prune'.pc = "files" /\ prune'.paths \subseteq prune.paths
    BY <1>5, <2>1, <2>2 DEF PruneStates
  <2>4. RemovedAreExpired'
    BY <1>1, <2>2, <2>3 DEF RemovedAreExpired, IsRecorded
  <2>5. ~ HasFiles(path[1])
    BY <2>2 DEF RemovedAreExpired, HasFiles, IsAtWork, IsRecorded
  <2>6. \A v \in Uploads : HasFiles(v) => \A f \in disk : f.path[1] = v => f \in disk'
    BY <2>1, <2>5
  <2>7. FilesAreWritten'
    BY <1>1, <1>3, <2>6, NoFilesAreLost
  <2> QED
    BY <2>4, <2>7
<1>11. CASE EndPrune
  <2>1. prune'.paths = {} /\ prune'.pc = "outputs" /\ UNCHANGED disk
    BY <1>5, <1>11 DEF EndPrune, Proceed, PhaseAfter, PruneStates
  <2> QED
    BY <1>4, <2>1 DEF RemovedAreExpired
<1>12. CASE PruneFails
  <2>1. prune'.paths = {} /\ prune'.pc = "outputs" /\ UNCHANGED disk
    BY <1>5, <1>12 DEF PruneFails, PruneStates
  <2> QED
    BY <1>4, <2>1 DEF RemovedAreExpired
<1> QED
    BY <1>7, <1>8, <1>9, <1>10, <1>11, <1>12 DEF PruneStep

LEMMA FilesOfOthers ==
    ASSUME StorageInv, RowsInv, FilesInv, [Next]_vars,
           Crash \/ Tick \/ UNCHANGED vars \/ \E p \in Projects : DeleteProject(p)
    PROVE  FilesInv'
<1> USE DEF StorageInv, TypeInv, FilesInv
<1>1. CASE Crash
  <2>1. UNCHANGED <<disk, runs, artifacts, prune>>
    BY <1>1 DEF Crash, db
  <2>2. \A v \in Uploads : upload'[v] = IF IsAtWork(v) THEN [upload[v] EXCEPT !.pc = "failed"]
                                        ELSE upload[v]
    BY <1>1 DEF Crash, IsAtWork
  <2>3. \A v \in Uploads : upload[v] \in UploadStates
    BY DEF TypeOK
  <2>4. \A v \in Uploads : IsAtWork(v) => upload'[v].pc = "failed"
    BY <2>2, <2>3 DEF UploadStates
  <2>5. \A a \in artifacts : IsRecorded(a.run) /\ a.run \in Uploads
    BY DEF RowsInv, RunsAreRecorded, TypeOK, ArtifactRow
  <2>6. \A v \in Uploads : ~ IsAtWork(v) => upload'[v] = upload[v] /\ upload[v].pc # "files"
    BY <2>2 DEF IsAtWork
  <2>7. ASSUME NEW v \in Uploads, HasFiles(v)' PROVE ~ IsAtWork(v) /\ HasFiles(v)
    <3>1. ~ IsAtWork(v)'
      BY <2>4, <2>6 DEF IsAtWork
    <3>2. \E a \in artifacts : a.run = v
      BY <2>1, <2>7, <3>1 DEF HasFiles
    <3> QED
      BY <2>5, <3>2 DEF HasFiles, IsAtWork, IsRecorded
  <2>8. FilesAreWritten'
    BY <2>1, <2>6, <2>7, NoFilesAreLost
  <2>9. RemovedAreExpired'
    BY <2>1, RemovalGoesOn
  <2> QED
    BY <2>8, <2>9
<1>2. CASE Tick \/ UNCHANGED vars
  <2>1. UNCHANGED <<disk, runs, artifacts, prune, upload>>
    BY <1>2 DEF Tick, vars, db
  <2>2. FilesAreWritten'
    BY <2>1, NoFilesAreLost DEF HasFiles, IsAtWork
  <2>3. RemovedAreExpired'
    BY <2>1, RemovalGoesOn
  <2> QED
    BY <2>2, <2>3
<1>3. ASSUME NEW p \in Projects, DeleteProject(p)
      PROVE  FilesInv'
  <2> DEFINE ids == {r.id : r \in {q \in runs : q.project = p}}
  <2>1. /\ runs' = {r \in runs : r.id \notin ids}
        /\ artifacts' = {a \in artifacts : a.run \notin ids}
        /\ UNCHANGED <<disk, prune, upload>>
    BY <1>3 DEF DeleteProject, DeleteRuns
  <2> HIDE DEF ids
  <2>2. FilesAreWritten'
    BY <2>1, NoFilesAreLost DEF HasFiles, IsAtWork
  <2>3. \A a \in artifacts' : a \in artifacts /\ a.run \notin ids
    BY <2>1
  <2>4. \A i \in ExpiredIds(prune.cutoff) : i \notin ids => i \in ExpiredIds(prune.cutoff)'
    BY <2>1 DEF ExpiredIds, Expired
  <2>5. RemovedAreExpired'
    BY <2>1, <2>3, <2>4 DEF RemovedAreExpired, IsRecorded
  <2> QED
    BY <2>2, <2>5
<1> QED
    BY <1>1, <1>2, <1>3

-----------------------------------------------------------------------------
LEMMA FilesInit == Init => RowsInv /\ FilesInv
<1> SUFFICES ASSUME Init PROVE RowsInv /\ FilesInv
    OBVIOUS
<1>1. LockIsHeld /\ PendingRows
    BY StorageAssumption DEF Init, LockIsHeld, PendingRows
<1>2. RunsAreRecorded /\ ArtifactsAreComplete
    BY DEF Init, RunsAreRecorded, ArtifactsAreComplete
<1>3. \A u \in Uploads : ~ HasFiles(u)
    BY DEF Init, IdleUpload, HasFiles, IsAtWork
<1>4. FilesAreWritten /\ RemovedAreExpired
    BY <1>3 DEF Init, FilesAreWritten, RemovedAreExpired
<1> QED
    BY <1>1, <1>2, <1>4 DEF RowsInv, FilesInv

LEMMA RowsNext == StorageInv /\ RowsInv /\ [Next]_vars => RowsInv'
<1> SUFFICES ASSUME StorageInv, RowsInv, [Next]_vars PROVE RowsInv'
    OBVIOUS
<1> QED
    BY RowsOfHandlers, RowsOfOthers DEF Next

LEMMA FilesNext == StorageInv /\ RowsInv /\ FilesInv /\ [Next]_vars => FilesInv'
<1> SUFFICES ASSUME StorageInv, RowsInv, FilesInv, [Next]_vars PROVE FilesInv'
    OBVIOUS
<1> QED
    BY FilesOfHandlers, FilesOfPrunes, FilesOfOthers DEF Next

\* No prune, whenever it fails or dies, no crash and no failed upload leaves an
\* artifact row without its file, or with another upload's.
THEOREM ArtifactsHaveTheirFiles == Spec => []ArtifactRowsHaveFiles
<1>1. TypeOK /\ RowsInv /\ FilesInv => ArtifactRowsHaveFiles
  <2> SUFFICES ASSUME TypeOK, RowsInv, FilesInv, NEW a \in artifacts,
                      \A b \in artifacts : b.path = a.path => b = a
               PROVE  [path |-> a.path, file |-> a.file] \in disk
    BY DEF ArtifactRowsHaveFiles
  <2> DEFINE u == a.run
  <2>1. u \in Uploads /\ IsRecorded(u) /\ a \in ArtifactRows(u) /\ ArtifactRows(u) \subseteq artifacts
    BY DEF TypeOK, ArtifactRow, RowsInv, RunsAreRecorded, ArtifactsAreComplete
  <2>2. PICK i \in RetainedFiles(upload[u].report) : a = [run |-> u, path |-> Path(u, i), file |-> i]
    BY <2>1 DEF ArtifactRows
  <2>3. ASSUME NEW k \in RetainedFiles(upload[u].report),
               upload[u].report.files[k].name = upload[u].report.files[i].name
        PROVE  k = i
    <3> DEFINE b == [run |-> u, path |-> Path(u, k), file |-> k]
    <3>1. b \in artifacts
      BY <2>1 DEF ArtifactRows
    <3>2. b.path = a.path
      BY <2>2, <2>3 DEF Path
    <3>3. b = a
      BY <3>1, <3>2
    <3> QED
      BY <2>2, <3>3
  <2>4. IsOnlyOne(u, i)
    BY <2>3 DEF IsOnlyOne
  <2>5. HasFiles(u) /\ upload[u].pc # "files"
    BY <2>1 DEF HasFiles, IsRecorded
  <2>6. [path |-> Path(u, i), file |-> i] \in disk
    BY <2>1, <2>4, <2>5 DEF FilesInv, FilesAreWritten
  <2> QED
    BY <2>2, <2>6
<1>2. StorageInv => TypeOK
    BY DEF StorageInv, TypeInv
<1> QED
    BY <1>1, <1>2, StorageInit, StorageNext, FilesInit, RowsNext, FilesNext, PTL DEF Spec

-----------------------------------------------------------------------------
(* The outputs of a run are stored with it, and for as long as it is fresh. *)

\* The results of an upload of which an output is to be stored.
HasOutput(u, i) ==
    /\ StoreAllTestOutputs \/ Fails(u, i)
    /\ \E s \in Streams : upload[u].report.results[i].text[s] # NoText

OutputsOf(u) ==
    IF IsBroken(upload[u].report) THEN {}
    ELSE {i \in DOMAIN upload[u].report.results : HasOutput(u, i)}

\* The open transaction has inserted those of the results so far.
PendingOutputs ==
    \A u \in Uploads : writer = u =>
        /\ {o.result : o \in tx.outputs} = {i \in OutputsOf(u) : i < upload[u].step}
        /\ IsBroken(upload[u].report) => upload[u].step > Len(upload[u].report.results)

OutputsInv == PendingOutputs /\ FreshOutputsAreComplete

LEMMA OutputIsStored ==
    ASSUME TypeOK, NEW u \in Uploads, NEW i \in Nat \ {0}, i <= Len(upload[u].report.results)
    PROVE  TextsOf(OutputRow(u, i)) # {} <=> HasOutput(u, i)
<1> DEFINE result == upload[u].report.results[i]
<1>1. upload[u].report \in Reports \cup {NoReport}
    BY DEF TypeOK, UploadStates
<1>2. result.text \in [Streams -> Texts \cup {NoText}]
    BY <1>1, ReportResults
<1>3. \A s \in Streams :
        KeptText(result, s) # NoText <=> /\ StoreAllTestOutputs \/ Fails(u, i)
                                         /\ result.text[s] # NoText
    BY <1>2, StorageAssumption DEF KeptText, Fails
<1>4. \A s \in Streams : OutputRow(u, i).blob[s] = KeptText(result, s)
    BY DEF OutputRow
<1>5. TextsOf(OutputRow(u, i)) # {} <=> \E s \in Streams : KeptText(result, s) # NoText
    BY <1>4 DEF TextsOf
<1> QED
    BY <1>3, <1>5 DEF HasOutput

LEMMA SameReportSameOutputs ==
    ASSUME NEW u \in Uploads, upload'[u].report = upload[u].report
    PROVE  /\ OutputsOf(u)' = OutputsOf(u)
           /\ IsBroken(upload[u].report)' = IsBroken(upload[u].report)
BY DEF OutputsOf, HasOutput, Fails, IsBroken

\* A run whose outputs a step leaves alone has them all after it as before.
LEMMA OutputsOfRunStay ==
    ASSUME TypeOK, RowsInv, FreshOutputsAreComplete, [Next]_vars, now' \in Nat, now <= now',
           NEW r \in runs, r.uploadedAt + OutputRetention >= now',
           \A o : o.run = r.id => (o \in outputs' <=> o \in outputs)
    PROVE  {o.result : o \in {q \in outputs' : q.run = r.id}} = OutputsOf(r.id)'
<1>1. r.id \in Uploads /\ IsRecorded(r.id)
    BY DEF TypeOK, RunRows, RowsInv, RunsAreRecorded
<1>2. upload'[r.id].report = upload[r.id].report
    BY <1>1, UploadsKeepTheirReports DEF IsRecorded
<1>3. OutputsOf(r.id)' = OutputsOf(r.id)
    BY <1>1, <1>2, SameReportSameOutputs
<1>4. r.uploadedAt \in Nat /\ now \in Nat
    BY DEF TypeOK, RunRows
<1>5. r.uploadedAt + OutputRetention >= now
    BY <1>4, StorageAssumption
<1>6. {o.result : o \in {q \in outputs : q.run = r.id}} = OutputsOf(r.id)
    BY <1>5 DEF FreshOutputsAreComplete, OutputsOf, HasOutput
<1>7. {q \in outputs' : q.run = r.id} = {q \in outputs : q.run = r.id}
    OBVIOUS
<1> QED
    BY <1>3, <1>6, <1>7

LEMMA FreshOutputsStay ==
    ASSUME TypeOK, RowsInv, FreshOutputsAreComplete, [Next]_vars, now' \in Nat, now <= now',
           runs' \subseteq runs,
           \A r \in runs' : \A o : r.uploadedAt + OutputRetention >= now' /\ o.run = r.id =>
              (o \in outputs' <=> o \in outputs)
    PROVE  FreshOutputsAreComplete'
<1> SUFFICES ASSUME NEW r \in runs', r.uploadedAt + OutputRetention >= now'
             PROVE  {o.result : o \in {q \in outputs' : q.run = r.id}} = OutputsOf(r.id)'
    BY DEF FreshOutputsAreComplete, OutputsOf, HasOutput
<1> QED
    BY OutputsOfRunStay

\* A transaction goes on as it was unless a step is its own.
LEMMA PendingOutputsStay ==
    ASSUME TypeOK, RowsInv, PendingOutputs, [Next]_vars, UNCHANGED <<writer, tx>>,
           \A u \in Uploads : writer = u => upload'[u].step = upload[u].step
    PROVE  PendingOutputs'
<1> SUFFICES ASSUME NEW u \in Uploads, writer = u
             PROVE  /\ {o.result : o \in tx.outputs} = {i \in OutputsOf(u)' : i < upload'[u].step}
                    /\ IsBroken(upload[u].report)' => upload'[u].step > Len(upload'[u].report.results)
    BY DEF PendingOutputs
<1>1. upload[u].pc = "results"
    BY DEF RowsInv, LockIsHeld
<1>2. upload'[u].report = upload[u].report /\ upload'[u].step = upload[u].step
    BY <1>1, UploadsKeepTheirReports
<1>3. OutputsOf(u)' = OutputsOf(u) /\ IsBroken(upload[u].report)' = IsBroken(upload[u].report)
    BY <1>2, SameReportSameOutputs
<1> QED
    BY <1>2, <1>3 DEF PendingOutputs

LEMMA OutputsOfHandlers ==
    ASSUME StorageInv, RowsInv, OutputsInv, [Next]_vars, NEW u \in Uploads,
           StartUpload(u) \/ UploadStep(u) \/ UploadFails(u)
    PROVE  OutputsInv'
<1> USE DEF StorageInv, TypeInv, OutputsInv
<1>1. /\ upload \in [Uploads -> UploadStates]
      /\ upload[u] \in UploadStates
      /\ upload[u].step \in Nat \ {0}
      /\ upload[u].report \in Reports \cup {NoReport}
      /\ now \in Nat
    BY DEF TypeOK, UploadStates
<1>2. upload[u].report.results \in Seq(Results) /\ Len(upload[u].report.results) \in Nat
    BY <1>1, ReportParts
<1>3. now' = now /\ u # NoWriter
    BY StorageAssumption DEF StartUpload, UploadStep, StoreArtifact, BeginRun, InsertResult, Commit,
                             RefuseRun, UploadFails, GiveUp
<1>4. ASSUME UNCHANGED db
      PROVE  FreshOutputsAreComplete'
    BY <1>1, <1>3, <1>4, FreshOutputsStay DEF db
<1>5. CASE StartUpload(u) \/ StoreArtifact(u)
  <2>1. UNCHANGED <<db, writer, tx>> /\ upload[u].pc # "results"
    BY <1>5 DEF StartUpload, StoreArtifact
  <2>2. \A v \in Uploads : v # u => upload'[v] = upload[v]
    BY <1>1, <1>5 DEF StartUpload, StoreArtifact
  <2>3. writer # u
    BY <2>1 DEF RowsInv, LockIsHeld
  <2>4. PendingOutputs'
    BY <2>1, <2>2, <2>3, PendingOutputsStay
  <2> QED
    BY <1>4, <2>1, <2>4
<1>6. CASE BeginRun(u)
  <2>1. /\ UNCHANGED db /\ writer' = u /\ tx'.outputs = {}
        /\ upload'[u].report = upload[u].report
        /\ upload'[u].step = IF IsBroken(upload[u].report)
                             THEN Len(upload[u].report.results) + 1 ELSE 1
    BY <1>1, <1>6 DEF BeginRun, UploadStates
  <2>2. OutputsOf(u)' = OutputsOf(u) /\ IsBroken(upload[u].report)' = IsBroken(upload[u].report)
    BY <2>1, SameReportSameOutputs
  <2>3. OutputsOf(u) \subseteq Nat \ {0} /\ (IsBroken(upload[u].report) => OutputsOf(u) = {})
    BY <1>2 DEF OutputsOf
  <2>4. {i \in OutputsOf(u)' : i < upload'[u].step} = {}
    BY <2>1, <2>2, <2>3
  <2>5. PendingOutputs'
    BY <1>2, <2>1, <2>2, <2>4 DEF PendingOutputs
  <2> QED
    BY <1>4, <2>1, <2>5
<1>7. CASE InsertResult(u)
  <2> DEFINE n == upload[u].step
             row == OutputRow(u, n)
  <2>1. /\ UNCHANGED db /\ writer = u /\ writer' = u /\ n <= Len(upload[u].report.results)
        /\ upload'[u].report = upload[u].report /\ upload'[u].step = n + 1
        /\ tx' = IF TextsOf(row) = {} THEN tx
                 ELSE [tx EXCEPT !.outputs = tx.outputs \cup {row},
                                 !.blobs = tx.blobs \cup NewBlobs(row)]
    BY <1>1, <1>7 DEF InsertResult, UploadStates, RowsNeedTheLock
  <2>2. OutputsOf(u)' = OutputsOf(u) /\ IsBroken(upload[u].report)' = IsBroken(upload[u].report)
    BY <2>1, SameReportSameOutputs
  <2>3. ~ IsBroken(upload[u].report)
    BY <1>1, <1>2, <2>1 DEF PendingOutputs
  <2>4. n \in OutputsOf(u) <=> TextsOf(row) # {}
    BY <1>1, <1>2, <2>1, <2>3, OutputIsStored DEF OutputsOf
  <2>5. row.result = n
    BY DEF OutputRow
  <2> HIDE DEF row
  <2>6. tx'.outputs = tx.outputs \cup (IF TextsOf(row) = {} THEN {} ELSE {row})
    BY <2>1 DEF TypeOK, Transactions
  <2>7. {o.result : o \in tx'.outputs} =
            {o.result : o \in tx.outputs} \cup (IF n \in OutputsOf(u) THEN {n} ELSE {})
    BY <2>4, <2>5, <2>6
  <2>8. {o.result : o \in tx.outputs} = {i \in OutputsOf(u) : i < n}
    BY <2>1 DEF PendingOutputs
  <2>9. OutputsOf(u) \subseteq Nat
    BY <1>2 DEF OutputsOf
  <2>10. {i \in OutputsOf(u) : i < n + 1} =
            {i \in OutputsOf(u) : i < n} \cup (IF n \in OutputsOf(u) THEN {n} ELSE {})
    <3>1. \A i \in OutputsOf(u) : i < n + 1 <=> i < n \/ i = n
      BY <1>1, <2>9
    <3> HIDE DEF n
    <3> QED
      BY <3>1
  <2>a. {o.result : o \in tx'.outputs} = {i \in OutputsOf(u) : i < n + 1}
    BY <2>7, <2>8, <2>10
  <2>11. PendingOutputs'
    BY <2>1, <2>2, <2>3, <2>a DEF PendingOutputs
  <2> QED
    BY <1>4, <2>1, <2>11
<1>8. CASE Commit(u)
  <2>1. /\ writer = u /\ writer' = NoWriter /\ upload[u].pc = "results"
        /\ upload[u].step > Len(upload[u].report.results)
        /\ runs' = runs \cup tx.runs /\ outputs' = outputs \cup tx.outputs
    BY <1>8 DEF Commit, RowsNeedTheLock
  <2>2. PendingOutputs'
    BY <2>1, StorageAssumption DEF PendingOutputs
  <2>3. /\ \A o \in tx.outputs : o.run = u
        /\ \A r \in tx.runs : r.id = u
    BY <2>1 DEF RowsInv, PendingRows
  <2>4. /\ \A o \in outputs : o.run # u
        /\ \A r \in runs : r.id # u
    BY <2>1 DEF RowsInv, RunsAreRecorded, IsRecorded
  <2>5. OutputsOf(u)' = OutputsOf(u)
    BY <2>1, UploadsKeepTheirReports, SameReportSameOutputs
  <2>6. {q \in outputs' : q.run = u} = tx.outputs
    BY <2>1, <2>3, <2>4
  <2>7. OutputsOf(u) \subseteq 1 .. Len(upload[u].report.results)
    BY <1>2 DEF OutputsOf
  <2>8. {o.result : o \in tx.outputs} = OutputsOf(u)
    BY <1>1, <1>2, <2>1, <2>7 DEF PendingOutputs
  <2>9. FreshOutputsAreComplete'
    <3> SUFFICES ASSUME NEW r \in runs', r.uploadedAt + OutputRetention >= now'
                 PROVE  {o.result : o \in {q \in outputs' : q.run = r.id}} = OutputsOf(r.id)'
      BY DEF FreshOutputsAreComplete, OutputsOf, HasOutput
    <3>1. CASE r \in runs
      <4>1. \A o : o.run = r.id => (o \in outputs' <=> o \in outputs)
        BY <2>1, <2>3, <2>4, <3>1
      <4> QED
        BY <1>1, <1>3, <3>1, <4>1, OutputsOfRunStay
    <3>2. CASE r \in tx.runs
      <4>1. r.id = u
        BY <2>3, <3>2
      <4> QED
        BY <2>5, <2>6, <2>8, <4>1
    <3> QED
      BY <2>1, <3>1, <3>2
  <2> QED
    BY <2>2, <2>9
<1>9. CASE RefuseRun(u) \/ UploadFails(u)
  <2>1. UNCHANGED db /\ GiveUp(u)
    BY <1>9 DEF RefuseRun, UploadFails, GiveUp
  <2>2. CASE writer = u
    BY <1>4, <2>1, <2>2, StorageAssumption DEF GiveUp, PendingOutputs
  <2>3. CASE writer # u
    <3>1. UNCHANGED <<writer, tx>> /\ \A v \in Uploads : v # u => upload'[v] = upload[v]
      BY <1>1, <2>1, <2>3 DEF GiveUp
    <3>2. PendingOutputs'
      BY <2>3, <3>1, PendingOutputsStay
    <3> QED
      BY <1>4, <2>1, <3>2
  <2> QED
    BY <2>2, <2>3
<1> QED
    BY <1>5, <1>6, <1>7, <1>8, <1>9 DEF UploadStep

LEMMA OutputsOfOthers ==
    ASSUME StorageInv, RowsInv, OutputsInv, [Next]_vars,
           \/ PruneStep \/ PruneFails \/ Crash \/ Tick \/ UNCHANGED vars
           \/ \E p \in Projects : DeleteProject(p)
    PROVE  OutputsInv'
<1> USE DEF StorageInv, TypeInv, OutputsInv
<1>1. now \in Nat /\ OutputRetention \in Nat /\ \A r \in runs : r.uploadedAt \in Nat
    BY StorageAssumption DEF TypeOK, RunRows
<1>2. ASSUME UNCHANGED <<writer, tx, upload>>
      PROVE  PendingOutputs'
    BY <1>2, PendingOutputsStay
<1>3. ASSUME UNCHANGED <<now, runs, outputs>>
      PROVE  FreshOutputsAreComplete'
    BY <1>1, <1>3, FreshOutputsStay
<1>4. ASSUME UNCHANGED now, NEW ids, DeleteRuns(ids)
      PROVE  FreshOutputsAreComplete'
  <2>1. /\ runs' = {r \in runs : r.id \notin ids}
        /\ outputs' = {o \in outputs : o.run \notin ids}
    BY <1>4 DEF DeleteRuns
  <2>2. \A r \in runs' : \A o : o.run = r.id => (o \in outputs' <=> o \in outputs)
    BY <2>1
  <2> QED
    BY <1>1, <1>4, <2>1, <2>2, FreshOutputsStay
<1>5. CASE PruneOutputs
  <2>1. PICK cutoff \in Cutoffs(OutputRetention) :
          outputs' = {o \in outputs : o.run \notin ExpiredIds(cutoff)}
    BY <1>5 DEF PruneOutputs
  <2>2. UNCHANGED <<now, runs, writer, tx, upload>>
    BY <1>5 DEF PruneOutputs
  <2>3. cutoff \in Nat /\ (cutoff = 0 \/ cutoff + OutputRetention <= now)
    BY <1>1 DEF Cutoffs
  <2>4. \A r \in runs : r.uploadedAt + OutputRetention >= now => ~ Expired(r, cutoff)
    BY <1>1, <2>3 DEF Expired
  <2>5. \A r \in runs : r.uploadedAt + OutputRetention >= now => r.id \notin ExpiredIds(cutoff)
    BY <2>4 DEF ExpiredIds, RowsInv, RunsAreRecorded
  <2>6. FreshOutputsAreComplete'
    BY <1>1, <2>1, <2>2, <2>5, FreshOutputsStay
  <2> QED
    BY <1>2, <2>2, <2>6
<1>6. CASE PruneRuns
    BY <1>2, <1>4, <1>6 DEF PruneRuns
<1>7. ASSUME NEW p \in Projects, DeleteProject(p)
      PROVE  OutputsInv'
    BY <1>2, <1>4, <1>7 DEF DeleteProject
<1>8. CASE PruneStep /\ ~ PruneOutputs /\ ~ PruneRuns
    BY <1>2, <1>3, <1>8 DEF PruneStep, DeleteOrphanedOutputBlobs, SelectArtifacts, RemoveFile,
                            EndPrune, db
<1>9. CASE PruneFails \/ UNCHANGED vars
    BY <1>2, <1>3, <1>9 DEF PruneFails, vars, db
<1>10. CASE Crash
  <2>1. UNCHANGED <<now, runs, outputs>> /\ writer' = NoWriter
    BY <1>10 DEF Crash, db
  <2> QED
    BY <1>3, <2>1, StorageAssumption DEF PendingOutputs
<1>11. CASE Tick
  <2>1. now' = now + 1 /\ UNCHANGED <<runs, outputs, writer, tx, upload>>
    BY <1>11 DEF Tick, db
  <2> QED
    BY <1>1, <1>2, <2>1, FreshOutputsStay
<1> QED
    BY <1>5, <1>6, <1>7, <1>8, <1>9, <1>10, <1>11

LEMMA OutputsInit == Init => OutputsInv
<1> SUFFICES ASSUME Init PROVE OutputsInv
    OBVIOUS
<1>1. PendingOutputs
    BY StorageAssumption DEF Init, PendingOutputs
<1>2. FreshOutputsAreComplete
    BY DEF Init, FreshOutputsAreComplete
<1> QED
    BY <1>1, <1>2 DEF OutputsInv

LEMMA OutputsNext == StorageInv /\ RowsInv /\ OutputsInv /\ [Next]_vars => OutputsInv'
<1> SUFFICES ASSUME StorageInv, RowsInv, OutputsInv, [Next]_vars PROVE OutputsInv'
    OBVIOUS
<1> QED
    BY OutputsOfHandlers, OutputsOfOthers DEF Next

\* A run that is not yet old has exactly the outputs its report gave it, in
\* whatever order results are inserted, pruned, deleted or rolled back.
THEOREM OutputsStayComplete == Spec => []FreshOutputsAreComplete
<1>1. OutputsInv => FreshOutputsAreComplete
    BY DEF OutputsInv
<1> QED
    BY <1>1, StorageInit, StorageNext, FilesInit, RowsNext, OutputsInit, OutputsNext, PTL DEF Spec

-----------------------------------------------------------------------------
(* The tables implement the plain log of outputs.                          *)

\* What is shown of an output does not depend on the other blobs there are.
LEMMA ShownStays ==
    ASSUME TypeOK, TypeOK', OutputsCanBeRead, OutputsCanBeRead', NEW o \in outputs, o \in outputs'
    PROVE  Shown(o)' = Shown(o)
<1>1. TextsOf(o) \subseteq blobs /\ TextsOf(o) \subseteq blobs'
    BY DEF OutputsCanBeRead, TextsOf
<1>2. NoText \notin blobs /\ NoText \notin blobs'
    BY StorageAssumption DEF TypeOK
<1>3. \A s \in Streams : o.blob[s] \in blobs <=> o.blob[s] \in blobs'
    BY <1>1, <1>2 DEF TextsOf
<1> QED
    BY <1>3 DEF Shown

\* The handler of a recorded run is at rest, and only Commit records one.
LEMMA RecordedByCommit ==
    ASSUME TypeOK, Next, \A u \in Uploads : ~ Commit(u)
    PROVE  Recorded' = Recorded
<1>1. \A u \in Uploads : upload[u] \in UploadStates
    BY DEF TypeOK
<1>2. ASSUME NEW u \in Uploads, StartUpload(u) \/ UploadStep(u) \/ UploadFails(u)
      PROVE  Recorded' = Recorded
  <2>1. /\ \A v \in Uploads : v # u => upload'[v] = upload[v]
        /\ upload[u].pc # "recorded" /\ upload'[u].pc # "recorded"
    <3>1. CASE StartUpload(u)
      BY <1>1, <3>1 DEF StartUpload, TypeOK
    <3>2. CASE StoreArtifact(u)
      BY <1>1, <3>2 DEF StoreArtifact, TypeOK, UploadStates
    <3>3. CASE BeginRun(u)
      BY <1>1, <3>3 DEF BeginRun, TypeOK, UploadStates
    <3>4. CASE InsertResult(u)
      BY <1>1, <3>4 DEF InsertResult, TypeOK, UploadStates
    <3>5. CASE RefuseRun(u) \/ UploadFails(u)
      BY <1>1, <3>5 DEF RefuseRun, UploadFails, GiveUp, TypeOK, UploadStates
    <3> QED
      BY <1>2, <3>1, <3>2, <3>3, <3>4, <3>5 DEF UploadStep
  <2> QED
    BY <2>1 DEF Recorded
<1>3. CASE Crash
  <2>1. \A u \in Uploads : upload'[u].pc = "recorded" <=> upload[u].pc = "recorded"
    BY <1>1, <1>3 DEF Crash, UploadStates
  <2> QED
    BY <2>1 DEF Recorded
<1>4. PruneStep \/ PruneFails \/ Tick => UNCHANGED upload
    BY DEF PruneStep, PruneOutputs, DeleteOrphanedOutputBlobs, SelectArtifacts, PruneRuns,
           RemoveFile, EndPrune, PruneFails, Tick
<1>5. (\E p \in Projects : DeleteProject(p)) => UNCHANGED upload
    BY DEF DeleteProject
<1>6. UNCHANGED upload => Recorded' = Recorded
    BY DEF Recorded
<1> QED
    BY <1>2, <1>3, <1>4, <1>5, <1>6 DEF Next

LEMMA CommitRecords ==
    ASSUME StorageInv, StorageInv', RowsInv, NEW u \in Uploads, Commit(u)
    PROVE  Log!Record(u)
<1> USE DEF StorageInv, TypeInv
<1>1. /\ writer = u /\ upload[u].pc = "results" /\ UNCHANGED now
      /\ runs' = runs \cup tx.runs /\ outputs' = outputs \cup tx.outputs
      /\ upload' = [upload EXCEPT ![u].pc = "recorded"]
    BY DEF Commit, RowsNeedTheLock
<1>2. Recorded' = Recorded \cup {u} /\ u \notin Recorded
    BY <1>1 DEF Recorded, TypeOK, UploadStates
<1>3. (\A r \in tx.runs : r.id = u) /\ (\A o \in tx.outputs : o.run = u)
    BY <1>1 DEF RowsInv, PendingRows
<1>4. FreshIds' \in {FreshIds, FreshIds \cup {u}}
    BY <1>1, <1>3 DEF FreshIds
<1>5. \A o \in outputs : Shown(o)' = Shown(o)
    BY <1>1, ShownStays
<1>6. ShownOutputs \subseteq ShownOutputs'
    BY <1>1, <1>5 DEF ShownOutputs
<1>7. \A e \in ShownOutputs' \ ShownOutputs : e.run = u
    BY <1>1, <1>3, <1>5 DEF ShownOutputs
<1> QED
    BY <1>2, <1>4, <1>6, <1>7 DEF Log!Record

\* Steps that remove rows, or nothing, at most let go of what is not fresh.
LEMMA RowsAreForgotten ==
    ASSUME StorageInv, StorageInv', Recorded' = Recorded, now <= now',
           runs' \subseteq runs, outputs' \subseteq outputs,
           \A o \in outputs \ outputs' : o.run \notin FreshIds'
    PROVE  Log!Forget
<1> USE DEF StorageInv, TypeInv
<1>1. /\ now \in Nat /\ now' \in Nat /\ OutputRetention \in Nat
      /\ \A r \in runs : r.uploadedAt \in Nat
    BY StorageAssumption DEF TypeOK, RunRows
<1>2. FreshIds' \subseteq FreshIds
    BY <1>1 DEF FreshIds
<1>3. \A o \in outputs' : Shown(o)' = Shown(o)
    BY ShownStays
<1>4. ShownOutputs' \subseteq ShownOutputs
    BY <1>3 DEF ShownOutputs
<1>5. \A e \in ShownOutputs \ ShownOutputs' : e.run \notin FreshIds'
    BY <1>3 DEF ShownOutputs
<1> QED
    BY <1>2, <1>4, <1>5 DEF Log!Forget

LEMMA StepsForget ==
    ASSUME StorageInv, StorageInv', RowsInv, Next, \A u \in Uploads : ~ Commit(u)
    PROVE  Log!Forget
<1> USE DEF StorageInv, TypeInv
<1>1. Recorded' = Recorded
    BY RecordedByCommit
<1>2. /\ now \in Nat /\ OutputRetention \in Nat
      /\ \A r \in runs : r.uploadedAt \in Nat
    BY StorageAssumption DEF TypeOK, RunRows
<1>3. ASSUME UNCHANGED <<runs, outputs>>, now <= now'
      PROVE  Log!Forget
    BY <1>1, <1>3, RowsAreForgotten
<1>4. ASSUME UNCHANGED now, NEW ids, DeleteRuns(ids)
      PROVE  Log!Forget
  <2>1. /\ runs' = {r \in runs : r.id \notin ids}
        /\ outputs' = {o \in outputs : o.run \notin ids}
    BY <1>4 DEF DeleteRuns
  <2>2. \A o \in outputs \ outputs' : o.run \notin FreshIds'
    BY <2>1 DEF FreshIds
  <2> QED
    BY <1>1, <1>2, <1>4, <2>1, <2>2, RowsAreForgotten
<1>5. CASE PruneOutputs
  <2>1. PICK cutoff \in Cutoffs(OutputRetention) :
          outputs' = {o \in outputs : o.run \notin ExpiredIds(cutoff)}
    BY <1>5 DEF PruneOutputs
  <2>2. UNCHANGED <<now, runs>>
    BY <1>5 DEF PruneOutputs
  <2>3. cutoff \in Nat /\ (cutoff = 0 \/ cutoff + OutputRetention <= now)
    BY <1>2 DEF Cutoffs
  <2>4. \A r \in runs : r.uploadedAt + OutputRetention >= now => ~ Expired(r, cutoff)
    BY <1>2, <2>3 DEF Expired
  <2>5. \A i \in ExpiredIds(cutoff) : i \notin FreshIds
    BY <2>4 DEF ExpiredIds, FreshIds, RowsInv, RunsAreRecorded
  <2>6. FreshIds' = FreshIds
    BY <2>2 DEF FreshIds
  <2>7. \A o \in outputs \ outputs' : o.run \notin FreshIds'
    BY <2>1, <2>5, <2>6
  <2> QED
    BY <1>1, <1>2, <2>1, <2>2, <2>7, RowsAreForgotten
<1>6. CASE PruneRuns
    BY <1>4, <1>6 DEF PruneRuns
<1>7. ASSUME NEW p \in Projects, DeleteProject(p)
      PROVE  Log!Forget
    BY <1>4, <1>7 DEF DeleteProject
<1>8. CASE PruneStep /\ ~ PruneOutputs /\ ~ PruneRuns
  <2>1. UNCHANGED <<now, runs, outputs>>
    BY <1>8 DEF PruneStep, DeleteOrphanedOutputBlobs, SelectArtifacts, RemoveFile, EndPrune, db
  <2> QED
    BY <1>2, <1>3, <2>1
<1>9. CASE PruneFails \/ Crash \/ Tick
    BY <1>2, <1>3, <1>9 DEF PruneFails, Crash, Tick, db
<1>10. ASSUME NEW u \in Uploads, StartUpload(u) \/ UploadStep(u) \/ UploadFails(u)
       PROVE  Log!Forget
    BY <1>2, <1>3, <1>10 DEF StartUpload, UploadStep, StoreArtifact, BeginRun, InsertResult,
                             RefuseRun, UploadFails, GiveUp, db
<1> QED
    BY <1>5, <1>6, <1>7, <1>8, <1>9, <1>10 DEF Next

\* Blobs that are shared, found, pruned and collected implement a plain log of
\* outputs: those of a run appear with it, never change, and stay as long as it
\* is neither old nor deleted.
THEOREM StorageImplementsOutputLog == Spec => ImplementsOutputLog
<1>1. Init => Log!Init
    BY DEF Init, IdleUpload, Log!Init, ShownOutputs, Recorded, FreshIds
<1>2. StorageInv /\ StorageInv' /\ RowsInv /\ [Next]_vars => [Log!Next]_(Log!lvars)
  <2> SUFFICES ASSUME StorageInv, StorageInv', RowsInv, [Next]_vars
               PROVE  [Log!Next]_(Log!lvars)
    OBVIOUS
  <2>1. CASE \E u \in Uploads : Commit(u)
    BY <2>1, CommitRecords DEF Log!Next
  <2>2. CASE Next /\ \A u \in Uploads : ~ Commit(u)
    BY <2>2, StepsForget DEF Log!Next
  <2>3. CASE UNCHANGED vars
    BY <2>3 DEF vars, db, Log!lvars, ShownOutputs, Shown, Recorded, FreshIds
  <2> QED
    BY <2>1, <2>2, <2>3
<1> QED
    BY <1>1, <1>2, StorageInit, StorageNext, FilesInit, RowsNext, PTL
       DEF Spec, ImplementsOutputLog, Log!Spec
=============================================================================
