---------------------------- MODULE IngestProofs ----------------------------
(***************************************************************************)
(* Theorems about Ingest for every value of its constants: its type        *)
(* invariant, that no regression is missed, and that it implements the     *)
(* abstract history of runs; then those about the runs it has recorded,    *)
(* which are kept while they should be, gone with their project, count     *)
(* what is listed, and agree with their predecessors.                      *)
(***************************************************************************)
EXTENDS Ingest, FiniteSetTheorems, SequenceTheorems, TLAPS

-----------------------------------------------------------------------------
(* The operators the actions are built from.                               *)

\* A set of row numbers of a sequence is finite, so its size is a number.
LEMMA RowsCount ==
    ASSUME NEW S, NEW rows \in Seq(S), NEW I \in SUBSET DOMAIN rows
    PROVE  Cardinality(I) \in Nat
<1>1. Len(rows) \in Nat /\ DOMAIN rows = 1 .. Len(rows)
    BY LenProperties
<1>2. IsFiniteSet(1 .. Len(rows))
    BY <1>1, FS_Interval
<1>3. IsFiniteSet(I)
    BY <1>1, <1>2, FS_Subset
<1> QED
    BY <1>3, FS_CardinalityType

\* The status that stays in previousResults is "failed" just if some row failed.
LEMMA LastStatusFailed ==
    ASSUME NEW S
    PROVE  /\ LastStatus(S) \in Statuses \cup {""}
           /\ LastStatus(S) = "failed" <=> "failed" \in S
BY DEF LastStatus, Statuses

LEMMA PreviousResultsType ==
    ASSUME NEW r
    PROVE  PreviousResults(r) \in [AllKeys -> Statuses \cup {""}]
BY LastStatusFailed DEF PreviousResults

LEMMA NoResultsType == NoResults \in [AllKeys -> Statuses \cup {""}]
BY DEF NoResults

\* What is in the rows of a run.
LEMMA RowTypes ==
    ASSUME NEW rows \in Rows
    PROVE  \A i \in DOMAIN rows :
             rows[i] \in [key : AllKeys, status : Statuses, regression : BOOLEAN]
<1>1. DOMAIN rows = 1 .. Len(rows)
    BY LenProperties DEF Rows
<1> QED
    BY <1>1, ElementOfSeq DEF Rows

\* The fields of a classified row, whatever the rows are.
LEMMA ClassifiedFields ==
    ASSUME NEW rows, NEW previous, NEW i \in DOMAIN rows
    PROVE  /\ Classified(rows, previous)[i].key = rows[i].key
           /\ Classified(rows, previous)[i].regression <=>
                /\ Classified(rows, previous)[i].status = "failed"
                /\ previous[Classified(rows, previous)[i].key] # "failed"
BY DEF Classified, IsRegression

\* Classifying keeps the rows and adds the regression flag.
LEMMA ClassifiedRows ==
    ASSUME NEW rows \in Seq([key : AllKeys, status : Statuses]),
           NEW previous \in [AllKeys -> Statuses \cup {""}]
    PROVE  /\ Classified(rows, previous) \in Rows
           /\ DOMAIN Classified(rows, previous) = DOMAIN rows
<1> DEFINE n == Len(rows)
           T == [key : AllKeys, status : Statuses, regression : BOOLEAN]
<1>1. n \in Nat /\ DOMAIN rows = 1 .. n
    BY LenProperties
<1>2. \A i \in 1 .. n : rows[i] \in [key : AllKeys, status : Statuses]
    BY ElementOfSeq
<1>3. \A i \in 1 .. n : IsRegression(rows[i], previous) \in BOOLEAN
    BY DEF IsRegression
<1>4. Classified(rows, previous) \in [1 .. n -> T]
    BY <1>1, <1>2, <1>3 DEF Classified
<1>5. Classified(rows, previous) \in Seq(T)
  <2> HIDE DEF T, n
  <2>1. Seq(T) = UNION {[1 .. m -> T] : m \in Nat}
    BY SeqDef
  <2> QED
    BY <1>1, <1>4, <2>1
<1> QED
    BY <1>1, <1>5 DEF Classified, Rows

-----------------------------------------------------------------------------
(* The run a handler builds.                                               *)

LEMMA ReportRows ==
    ASSUME TypeOK, NEW h \in RunIds
    PROVE  /\ h[1] \in Jobs
           /\ request[h[1]] \in Requests
           /\ request[h[1]].project \in Projects
           /\ request[h[1]].branch \in Branches
           /\ request[h[1]].report.rows \in Seq([key : AllKeys, status : Statuses])
           /\ request[h[1]].report.broken \in BOOLEAN
<1>1. h[1] \in Jobs
    BY DEF RunIds
<1>2. request[h[1]] \in Requests
    BY <1>1 DEF TypeOK
<1>3. request[h[1]].report \in Reports
    BY <1>2 DEF Requests
<1> QED
    BY <1>1, <1>2, <1>3, ReportsAssumption DEF Requests

LEMMA RunRecordType ==
    ASSUME TypeOK, NEW h \in RunIds
    PROVE  RunRecord(h) \in RunRecords
<1> DEFINE rows == request[h[1]].report.rows
           all  == Classified(rows, handler[h].previous)
           kept == IF request[h[1]].report.broken THEN <<>> ELSE all
<1>1. handler[h] \in Handlers
    BY DEF TypeOK
<1>2. all \in Rows
    BY <1>1, ReportRows, ClassifiedRows DEF Handlers
<1>3. kept \in Rows
    BY <1>2, EmptySeq DEF Rows
<1>4. Len(kept) \in Nat
    BY <1>3, LenProperties DEF Rows
<1>5. \A s : CountStatus(kept, s) \in Nat
    BY <1>3, RowsCount DEF Rows, CountStatus
<1>6. CountRegressions(all) \in Nat
    BY <1>2, RowsCount DEF Rows, CountRegressions
<1> HIDE DEF all, kept
<1>7. /\ handler[h].uploadedAt \in Nat
      /\ handler[h].prev \in RunIds \cup {NoRun}
      /\ handler[h].blind \in BOOLEAN
      /\ now \in Nat
    BY <1>1 DEF Handlers, TypeOK
<1> QED
    BY <1>3, <1>4, <1>5, <1>6, <1>7, ReportRows DEF RunRecord, RunRecords, all, kept

LEMMA CatalogueType ==
    ASSUME NEW run \in RunRecords
    PROVE  CatalogueEntries(run) \in SUBSET (Projects \X Keys)
<1>1. run.project \in Projects /\ run.rows \in Rows
    BY DEF RunRecords
<1>2. \A i \in DOMAIN run.rows : run.rows[i].key \in AllKeys
    BY <1>1, RowTypes
<1> QED
    BY <1>1, <1>2 DEF CatalogueEntries, AllKeys

-----------------------------------------------------------------------------
(* Type correctness.  A ready client has an attempt left: that is what keeps *)
(* the number of the next attempt, and so the run's id, within its range.   *)

AttemptLeft ==
    \A j \in Jobs : client[j].state = "ready" => client[j].attempt < MaxAttempts

TypeInv == TypeOK /\ AttemptLeft

LEMMA HandlerTypes ==
    /\ IdleHandler \in Handlers
    /\ Closed \in Handlers
    /\ [IdleHandler EXCEPT !.pc = "respond"] \in Handlers
    /\ \A t \in Nat : [IdleHandler EXCEPT !.pc = "findOnBranch", !.uploadedAt = t] \in Handlers
BY NoResultsType DEF IdleHandler, Closed, Handlers

LEMMA AfterErrorType ==
    ASSUME NEW c \in Clients, c.state = "waiting"
    PROVE  /\ AfterError(c) \in Clients
           /\ AfterError(c).attempt = c.attempt
           /\ AfterError(c).state = "ready" => AfterError(c).attempt < MaxAttempts
           /\ AfterError(c).state \in {"ready", "gaveup"}
BY ConstantsAssumption DEF AfterError, Clients

LEMMA TypeInit == Init => TypeInv
<1> SUFFICES ASSUME Init PROVE TypeInv
    OBVIOUS
<1>1. handler \in [RunIds -> Handlers]
    BY HandlerTypes DEF Init
<1>2. client \in [Jobs -> Clients] /\ AttemptLeft
    BY ConstantsAssumption DEF Init, Clients, AttemptLeft
<1>3. DOMAIN runs \in SUBSET RunIds /\ runs \in [DOMAIN runs -> RunRecords]
    BY DEF Init
<1> QED
    BY <1>1, <1>2, <1>3 DEF Init, TypeInv, TypeOK

\* What the handler of request h does to the handlers and clients' types.
LEMMA AdvanceType ==
    ASSUME TypeInv, NEW h \in RunIds,
           NEW pc \in {"findAnywhere", "listResults", "createRun"},
           NEW prev \in RunIds \cup {NoRun},
           NEW previous \in [AllKeys -> Statuses \cup {""}],
           NEW blind \in BOOLEAN,
           Advance(h, pc, prev, previous, blind)
    PROVE  TypeInv'
<1>1. handler' \in [RunIds -> Handlers]
    BY DEF Advance, TypeInv, TypeOK, Handlers
<1> QED
    BY <1>1 DEF Advance, TypeInv, TypeOK, AttemptLeft

LEMMA TypeNext == TypeInv /\ [Next]_vars => TypeInv'
<1> SUFFICES ASSUME TypeInv, [Next]_vars PROVE TypeInv'
    OBVIOUS
<1> USE DEF TypeInv
<1>1. ASSUME NEW j \in Jobs, StartUpload(j) PROVE TypeInv'
  <2> DEFINE a == client[j].attempt + 1
  <2>1. a \in 1 .. MaxAttempts
    BY <1>1, ConstantsAssumption DEF StartUpload, TypeOK, AttemptLeft, Clients
  <2>2. client' \in [Jobs -> Clients] /\ AttemptLeft'
    BY <1>1, <2>1, ConstantsAssumption DEF StartUpload, TypeOK, AttemptLeft, Clients
  <2>3. handler' \in [RunIds -> Handlers]
    BY <1>1, <2>1, HandlerTypes DEF StartUpload, TypeOK, RunIds
  <2> QED
    BY <1>1, <2>2, <2>3 DEF StartUpload, TypeOK
<1>2. ASSUME NEW j \in Jobs, RefuseUpload(j) PROVE TypeInv'
  <2> DEFINE c == [state |-> "waiting", attempt |-> client[j].attempt + 1]
  <2>1. c \in Clients
    BY <1>2, ConstantsAssumption DEF RefuseUpload, TypeOK, AttemptLeft, Clients
  <2>2. client' \in [Jobs -> Clients] /\ AttemptLeft'
    BY <1>2, <2>1, AfterErrorType DEF RefuseUpload, TypeOK, AttemptLeft
  <2> QED
    BY <1>2, <2>2 DEF RefuseUpload, TypeOK
<1>3. ASSUME NEW j \in Jobs, LoseConnection(j) PROVE TypeInv'
  <2>1. client' \in [Jobs -> Clients] /\ AttemptLeft'
    BY <1>3, AfterErrorType DEF LoseConnection, TypeOK, AttemptLeft
  <2> QED
    BY <1>3, <2>1 DEF LoseConnection, TypeOK
<1>4. ASSUME NEW h \in RunIds, FindOnBranch(h) PROVE TypeInv'
  <2>1. Latest(CompleteOn(request[h[1]].project, request[h[1]].branch)) \subseteq RunIds
    BY DEF Latest, CompleteOn, Complete, TypeOK
  <2> QED
    BY <1>4, <2>1, AdvanceType, NoResultsType DEF FindOnBranch
<1>5. ASSUME NEW h \in RunIds, FindAnywhere(h) PROVE TypeInv'
  <2>1. Latest(Complete(request[h[1]].project)) \subseteq RunIds
    BY DEF Latest, Complete, TypeOK
  <2> QED
    BY <1>5, <2>1, AdvanceType, NoResultsType DEF FindAnywhere
<1>6. ASSUME NEW h \in RunIds, ListPrevious(h) PROVE TypeInv'
  <2>1. handler[h].prev \in RunIds \cup {NoRun}
    BY DEF TypeOK, Handlers
  <2> QED
    BY <1>6, <2>1, AdvanceType, PreviousResultsType DEF ListPrevious
<1>7. ASSUME NEW h \in RunIds, IgnoreReadError(h) PROVE TypeInv'
  <2>1. handler[h].prev \in RunIds \cup {NoRun}
    BY DEF TypeOK, Handlers
  <2> QED
    BY <1>7, <2>1, AdvanceType, NoResultsType DEF IgnoreReadError
<1>8. ASSUME NEW h \in RunIds, CreateRun(h) PROVE TypeInv'
  <2> DEFINE run == RunRecord(h)
  <2>1. run \in RunRecords
    BY RunRecordType
  <2>2. CatalogueEntries(run) \in SUBSET (Projects \X Keys)
    BY <2>1, CatalogueType
  <2> HIDE DEF run
  <2>3. /\ DOMAIN runs' = DOMAIN runs \cup {h}
        /\ runs' \in [DOMAIN runs' -> RunRecords]
    BY <1>8, <2>1 DEF CreateRun, TypeOK, run
  <2>4. handler' \in [RunIds -> Handlers]
    BY <1>8, HandlerTypes DEF CreateRun, TypeOK
  <2>5. tests' \in SUBSET (Projects \X Keys)
    BY <1>8, <2>2 DEF CreateRun, TypeOK, run
  <2>6. live' \in SUBSET DOMAIN runs'
    BY <1>8, <2>3 DEF CreateRun, TypeOK
  <2> QED
    BY <1>8, <2>3, <2>4, <2>5, <2>6 DEF CreateRun, TypeOK, AttemptLeft
<1>9. ASSUME NEW h \in RunIds, RespondCreated(h) PROVE TypeInv'
  <2>1. client' \in [Jobs -> Clients] /\ AttemptLeft'
    BY <1>9 DEF RespondCreated, TypeOK, AttemptLeft, Clients
  <2> QED
    BY <1>9, <2>1, HandlerTypes DEF RespondCreated, TypeOK
<1>10. ASSUME NEW h \in RunIds, RespondError(h) PROVE TypeInv'
  <2>1. Awaits(h) => client[h[1]].state = "waiting"
    BY DEF Awaits
  <2>2. client' \in [Jobs -> Clients] /\ AttemptLeft'
    BY <1>10, <2>1, AfterErrorType DEF RespondError, TypeOK, AttemptLeft, RunIds
  <2> QED
    BY <1>10, <2>2, HandlerTypes DEF RespondError, TypeOK
<1>11. CASE PruneRuns
    BY <1>11 DEF PruneRuns, TypeOK, AttemptLeft
<1>12. ASSUME NEW p \in Projects, DeleteProject(p) PROVE TypeInv'
    BY <1>12 DEF DeleteProject, TypeOK, AttemptLeft
<1>13. CASE Crash
  <2>1. client' \in [Jobs -> Clients] /\ AttemptLeft'
    BY <1>13, AfterErrorType DEF Crash, TypeOK, AttemptLeft
  <2> QED
    BY <1>13, <2>1, HandlerTypes DEF Crash, TypeOK
<1>14. CASE Tick
    BY <1>14 DEF Tick, TypeOK, AttemptLeft
<1>15. CASE UNCHANGED vars
    BY <1>15 DEF vars, TypeOK, AttemptLeft
<1> QED
    BY <1>1, <1>2, <1>3, <1>4, <1>5, <1>6, <1>7, <1>8, <1>9, <1>10, <1>11, <1>12,
       <1>13, <1>14, <1>15 DEF Next, ClientStep, HandlerStep

\* In every reachable state the variables have the types of TypeOK: the service
\* never runs out of attempts, ids or statuses it knows (whole upload path).
THEOREM TypeCorrect == Spec => []TypeOK
<1>1. Spec => []TypeInv
    BY TypeInit, TypeNext, PTL DEF Spec
<1>2. TypeInv => TypeOK
    BY DEF TypeInv
<1> QED
    BY <1>1, <1>2, PTL

-----------------------------------------------------------------------------
(* No regression is missed.  NoRegressionMissed alone is not inductive: what *)
(* makes the step of CreateRun keep it is that every run id is used once,   *)
(* so that recorded runs stay as they are, and that a handler believes a    *)
(* test to have failed before only if some recorded run says so.            *)

FreshIds ==
    /\ \A j \in Jobs, a \in 1 .. MaxAttempts :
          client[j].attempt < a => handler[<<j, a>>].pc = "idle"
    /\ \A h \in DOMAIN runs : handler[h].pc \in {"respond", "closed"}

\* Some recorded run of project p shows a failure of test k.
WasFailing(p, k) ==
    \E q \in DOMAIN runs : runs[q].project = p /\ k \in FailedKeys(q)

PreviousKnown ==
    \A h \in RunIds :
        /\ handler[h].prev # NoRun =>
             /\ handler[h].prev \in DOMAIN runs
             /\ runs[handler[h].prev].project = request[h[1]].project
        /\ \A k \in AllKeys :
             handler[h].previous[k] = "failed" => WasFailing(request[h[1]].project, k)

IngestInv == TypeInv /\ FreshIds /\ PreviousKnown

\* Where the recorded runs do not change, neither does what was failing.
LEMMA SameRuns ==
    ASSUME UNCHANGED <<runs, request>>
    PROVE  /\ \A r : FailedKeys(r)' = FailedKeys(r) /\ FlaggedKeys(r)' = FlaggedKeys(r)
           /\ \A p, k : WasFailing(p, k)' <=> WasFailing(p, k)
           /\ NoRegressionMissed' <=> NoRegressionMissed
BY DEF FailedKeys, FlaggedKeys, WasFailing, NoRegressionMissed

\* A handler reads a failure only from rows that a recorded run has.
LEMMA ReadFailures ==
    ASSUME TypeInv, NEW r, NEW k \in AllKeys, PreviousResults(r)[k] = "failed"
    PROVE  r \in DOMAIN runs /\ k \in FailedKeys(r)
<1> DEFINE rows == {l \in Listed(r) : r \in live /\ runs[r].rows[l].key = k}
<1>1. PreviousResults(r)[k] = LastStatus({runs[r].rows[i].status : i \in rows})
    BY DEF PreviousResults
<1>2. "failed" \in {runs[r].rows[i].status : i \in rows}
    BY <1>1, LastStatusFailed
<1>3. PICK i \in rows : runs[r].rows[i].status = "failed"
    BY <1>2
<1> QED
    BY <1>3 DEF Listed, FailedKeys, TypeInv, TypeOK

\* Recording a run under a fresh id leaves the recorded runs alone.
LEMMA RecordedRunsStay ==
    ASSUME TypeInv, FreshIds, NEW h \in RunIds, CreateRun(h)
    PROVE  /\ h \notin DOMAIN runs
           /\ DOMAIN runs' = DOMAIN runs \cup {h}
           /\ runs'[h] = RunRecord(h)
           /\ \A r \in DOMAIN runs :
                /\ runs'[r] = runs[r]
                /\ FailedKeys(r)' = FailedKeys(r)
                /\ FlaggedKeys(r)' = FlaggedKeys(r)
<1>1. h \notin DOMAIN runs
    BY DEF CreateRun, FreshIds
<1>2. runs' = [r \in DOMAIN runs \cup {h} |-> IF r = h THEN RunRecord(h) ELSE runs[r]]
    BY DEF CreateRun
<1> QED
    BY <1>1, <1>2 DEF FailedKeys, FlaggedKeys

\* A recorded run flags only failures, and explains those it does not flag.
LEMMA NewRunExplained ==
    ASSUME IngestInv, NEW h \in RunIds, CreateRun(h)
    PROVE  /\ FlaggedKeys(h)' \subseteq FailedKeys(h)'
           /\ \A k \in FailedKeys(h)' : k \in AllKeys
           /\ \A k \in FailedKeys(h)' \ FlaggedKeys(h)' :
                WasFailing(request[h[1]].project, k)
<1> DEFINE rows == request[h[1]].report.rows
           all  == Classified(rows, handler[h].previous)
           kept == IF request[h[1]].report.broken THEN <<>> ELSE all
<1>1. runs'[h].rows = kept
  <2>1. RunRecord(h).rows = kept
    BY DEF RunRecord
  <2>2. runs'[h] = RunRecord(h)
    BY RecordedRunsStay DEF IngestInv
  <2> QED
    BY <2>1, <2>2
<1>2. /\ rows \in Seq([key : AllKeys, status : Statuses])
      /\ handler[h].previous \in [AllKeys -> Statuses \cup {""}]
    BY ReportRows DEF IngestInv, TypeInv, TypeOK, Handlers
<1>3. \A i \in DOMAIN kept :
        /\ kept[i].key \in AllKeys
        /\ kept[i].regression <=> /\ kept[i].status = "failed"
                                  /\ handler[h].previous[kept[i].key] # "failed"
  <2>1. \A i \in DOMAIN all :
          /\ all[i].key \in AllKeys
          /\ all[i].regression <=> /\ all[i].status = "failed"
                                   /\ handler[h].previous[all[i].key] # "failed"
    <3>1. all \in Rows /\ DOMAIN all = DOMAIN rows
      BY <1>2, ClassifiedRows
    <3>2. \A i \in DOMAIN all :
            all[i].regression <=> /\ all[i].status = "failed"
                                  /\ handler[h].previous[all[i].key] # "failed"
      BY <3>1, ClassifiedFields
    <3> HIDE DEF all
    <3>3. \A i \in DOMAIN all : all[i].key \in AllKeys
      BY <3>1, RowTypes
    <3> QED
      BY <3>2, <3>3
  <2>2. kept = all \/ DOMAIN kept = {}
    OBVIOUS
  <2> HIDE DEF kept
  <2> QED
    BY <2>1, <2>2
<1> HIDE DEF kept
<1>4. /\ FailedKeys(h)' = {kept[i].key : i \in {l \in DOMAIN kept : kept[l].status = "failed"}}
      /\ FlaggedKeys(h)' = {kept[i].key : i \in {l \in DOMAIN kept : kept[l].regression}}
    BY <1>1 DEF FailedKeys, FlaggedKeys
<1>5. ASSUME NEW k \in FailedKeys(h)' \ FlaggedKeys(h)'
      PROVE  k \in AllKeys /\ handler[h].previous[k] = "failed"
    BY <1>3, <1>4
<1> QED
    BY <1>3, <1>4, <1>5 DEF IngestInv, PreviousKnown

LEMMA IngestInit == Init => IngestInv /\ NoRegressionMissed
<1> SUFFICES ASSUME Init PROVE IngestInv /\ NoRegressionMissed
    OBVIOUS
<1>1. FreshIds
    BY DEF Init, FreshIds, IdleHandler, RunIds
<1>2. PreviousKnown
    BY DEF Init, PreviousKnown, IdleHandler, NoResults
<1>3. NoRegressionMissed
    BY DEF Init, NoRegressionMissed
<1> QED
    BY <1>1, <1>2, <1>3, TypeInit DEF IngestInv

\* A read step keeps the invariant if what it leaves in the handler is known.
LEMMA ReadKnown ==
    ASSUME IngestInv, NEW h \in RunIds,
           handler[h].pc \in {"findOnBranch", "findAnywhere", "listResults"},
           UNCHANGED <<runs, request, client>>,
           \A g \in RunIds : g # h => handler'[g] = handler[g],
           handler'[h].prev # NoRun =>
               /\ handler'[h].prev \in DOMAIN runs
               /\ runs[handler'[h].prev].project = request[h[1]].project,
           \A k \in AllKeys :
               handler'[h].previous[k] = "failed" => WasFailing(request[h[1]].project, k)
    PROVE  FreshIds' /\ PreviousKnown'
<1> USE DEF IngestInv, TypeInv
<1>1. h \notin DOMAIN runs
    BY DEF FreshIds
<1>2. FreshIds'
  <2>1. \A j \in Jobs, a \in 1 .. MaxAttempts :
          <<j, a>> \in RunIds /\ (client[j].attempt < a => <<j, a>> # h)
    BY DEF FreshIds, RunIds
  <2> QED
    BY <1>1, <2>1 DEF FreshIds, TypeOK
<1>3. PreviousKnown'
    BY SameRuns DEF PreviousKnown
<1> QED
    BY <1>2, <1>3

LEMMA NothingRead == \A k \in AllKeys : NoResults[k] # "failed"
BY DEF NoResults

\* Steps that touch neither runs nor the handlers' findings.
LEMMA OtherStepsKnown ==
    ASSUME IngestInv, UNCHANGED <<runs, request>>,
           \A h \in RunIds :
              \/ handler'[h] = handler[h]
              \/ handler'[h].prev = NoRun /\ handler'[h].previous = NoResults
    PROVE  PreviousKnown'
BY SameRuns DEF IngestInv, PreviousKnown, NoResults

\* A handler that has nothing in its hands.
LEMMA EmptyHanded ==
    /\ IdleHandler.prev = NoRun /\ IdleHandler.previous = NoResults
    /\ Closed.prev = NoRun /\ Closed.previous = NoResults /\ Closed.pc = "closed"
    /\ \A t : /\ [IdleHandler EXCEPT !.pc = "findOnBranch", !.uploadedAt = t].prev = NoRun
             /\ [IdleHandler EXCEPT !.pc = "findOnBranch", !.uploadedAt = t].previous = NoResults
    /\ [IdleHandler EXCEPT !.pc = "respond"].prev = NoRun
    /\ [IdleHandler EXCEPT !.pc = "respond"].previous = NoResults
    /\ [IdleHandler EXCEPT !.pc = "respond"].pc = "respond"
BY DEF IdleHandler, Closed

\* The steps of CreateRun: the history grows by a run that explains itself.
LEMMA CreateRunKnown ==
    ASSUME IngestInv, NEW h \in RunIds, CreateRun(h)
    PROVE  /\ FreshIds' /\ PreviousKnown'
           /\ NoRegressionMissed => NoRegressionMissed'
<1> USE DEF IngestInv
<1>1. /\ h \notin DOMAIN runs
      /\ DOMAIN runs' = DOMAIN runs \cup {h}
      /\ \A r \in DOMAIN runs : /\ runs'[r] = runs[r]
                                /\ FailedKeys(r)' = FailedKeys(r)
                                /\ FlaggedKeys(r)' = FlaggedKeys(r)
    BY RecordedRunsStay
<1>2. runs'[h].project = request[h[1]].project
  <2>1. RunRecord(h).project = request[h[1]].project
    BY DEF RunRecord
  <2> QED
    BY <2>1, RecordedRunsStay
<1>3. handler[h].pc = "createRun" /\ UNCHANGED <<client, request>>
    BY DEF CreateRun
<1>4. \A g \in RunIds :
        handler'[g] = IF g = h THEN [IdleHandler EXCEPT !.pc = "respond"] ELSE handler[g]
    BY DEF CreateRun, TypeInv, TypeOK
<1>5. FreshIds'
  <2>1. \A j \in Jobs, a \in 1 .. MaxAttempts :
          <<j, a>> \in RunIds /\ (client[j].attempt < a => <<j, a>> # h)
    BY <1>3 DEF FreshIds, RunIds
  <2>2. DOMAIN runs \subseteq RunIds
    BY DEF TypeInv, TypeOK
  <2>3. \A j \in Jobs, a \in 1 .. MaxAttempts :
          client'[j].attempt < a => handler'[<<j, a>>].pc = "idle"
    BY <1>3, <1>4, <2>1 DEF FreshIds
  <2>4. handler'[h].pc = "respond"
    BY <1>4, EmptyHanded
  <2>5. \A g \in DOMAIN runs' : handler'[g].pc \in {"respond", "closed"}
    BY <1>1, <1>4, <2>2, <2>4 DEF FreshIds
  <2> QED
    BY <2>3, <2>5 DEF FreshIds
<1>6. PreviousKnown'
  <2> SUFFICES ASSUME NEW g \in RunIds
               PROVE  /\ handler'[g].prev # NoRun =>
                           /\ handler'[g].prev \in DOMAIN runs'
                           /\ runs'[handler'[g].prev].project = request[g[1]].project
                      /\ \A k \in AllKeys : handler'[g].previous[k] = "failed" =>
                           \E q \in DOMAIN runs' : /\ runs'[q].project = request[g[1]].project
                                                  /\ k \in FailedKeys(q)'
    BY <1>3 DEF PreviousKnown, WasFailing
  <2>1. CASE g = h
    <3>1. handler'[g].prev = NoRun /\ handler'[g].previous = NoResults
      BY <2>1, <1>4, EmptyHanded
    <3> QED
      BY <3>1 DEF NoResults
  <2>2. CASE g # h
    BY <2>2, <1>1, <1>4 DEF PreviousKnown, WasFailing
  <2> QED
    BY <2>1, <2>2
<1>7. ASSUME NoRegressionMissed PROVE NoRegressionMissed'
  <2> SUFFICES ASSUME NEW r \in DOMAIN runs', NEW k \in FailedKeys(r)'
               PROVE  \E q \in DOMAIN runs' :
                        runs'[q].project = runs'[r].project /\ k \in FlaggedKeys(q)'
    BY DEF NoRegressionMissed
  <2>1. ASSUME NEW p, WasFailing(p, k)
        PROVE  \E q \in DOMAIN runs' : runs'[q].project = p /\ k \in FlaggedKeys(q)'
    <3>1. PICK q \in DOMAIN runs : runs[q].project = p /\ k \in FailedKeys(q)
      BY <2>1 DEF WasFailing
    <3>2. PICK q2 \in DOMAIN runs :
            runs[q2].project = runs[q].project /\ k \in FlaggedKeys(q2)
      BY <3>1, <1>7 DEF NoRegressionMissed
    <3> QED
      BY <3>1, <3>2, <1>1
  <2>2. CASE r = h
    <3>1. CASE k \in FlaggedKeys(h)'
      BY <2>2, <3>1, <1>1
    <3>2. CASE k \notin FlaggedKeys(h)'
      <4>1. WasFailing(request[h[1]].project, k)
        BY <2>2, <3>2, NewRunExplained
      <4> QED
        BY <4>1, <2>1, <2>2, <1>2
    <3> QED
      BY <3>1, <3>2
  <2>3. CASE r # h
    <3>1. r \in DOMAIN runs /\ runs'[r] = runs[r] /\ k \in FailedKeys(r)
      BY <2>3, <1>1
    <3>2. WasFailing(runs[r].project, k)
      BY <3>1 DEF WasFailing
    <3> QED
      BY <3>1, <3>2, <2>1
  <2> QED
    BY <2>2, <2>3
<1> QED
    BY <1>5, <1>6, <1>7

LEMMA IngestNext ==
    IngestInv /\ NoRegressionMissed /\ [Next]_vars => (IngestInv /\ NoRegressionMissed)'
<1> SUFFICES ASSUME IngestInv, NoRegressionMissed, [Next]_vars
             PROVE  FreshIds' /\ PreviousKnown' /\ NoRegressionMissed'
    BY TypeNext DEF IngestInv
<1> USE DEF IngestInv
<1>1. ASSUME NEW j \in Jobs, StartUpload(j)
      PROVE  FreshIds' /\ PreviousKnown' /\ NoRegressionMissed'
  <2> DEFINE a == client[j].attempt + 1
             hd == [IdleHandler EXCEPT !.pc = "findOnBranch", !.uploadedAt = now]
  <2>1. a \in 1 .. MaxAttempts /\ <<j, a>> \in RunIds
    BY <1>1, ConstantsAssumption
    DEF StartUpload, TypeInv, TypeOK, AttemptLeft, Clients, RunIds
  <2>2. handler[<<j, a>>].pc = "idle"
    BY <2>1, <1>1 DEF FreshIds, TypeInv, TypeOK, Clients
  <2>3. <<j, a>> \notin DOMAIN runs
    BY <2>2 DEF FreshIds
  <2> HIDE DEF hd
  <2>4. \A h \in RunIds : handler'[h] = IF h = <<j, a>> THEN hd ELSE handler[h]
    BY <1>1, <2>1 DEF StartUpload, TypeInv, TypeOK, hd
  <2>5. FreshIds'
    <3>1. \A i \in Jobs : client'[i].attempt = IF i = j THEN a ELSE client[i].attempt
      BY <1>1 DEF StartUpload, TypeInv, TypeOK
    <3>2. \A i \in Jobs : client[i].attempt \in Nat
      BY ConstantsAssumption DEF TypeInv, TypeOK, Clients
    <3>3. \A i \in Jobs, b \in 1 .. MaxAttempts :
            client'[i].attempt < b => handler'[<<i, b>>].pc = "idle"
      BY <2>1, <2>4, <3>1, <3>2, ConstantsAssumption DEF FreshIds, RunIds
    <3>4. \A h \in DOMAIN runs : handler'[h] = handler[h]
      BY <2>3, <2>4 DEF TypeInv, TypeOK
    <3> QED
      BY <1>1, <3>3, <3>4 DEF FreshIds, StartUpload
  <2>6. PreviousKnown'
    BY <1>1, <2>4, EmptyHanded, OtherStepsKnown DEF StartUpload, hd
  <2> QED
    BY <1>1, <2>5, <2>6, SameRuns DEF StartUpload
<1>2. ASSUME NEW j \in Jobs, RefuseUpload(j) \/ LoseConnection(j)
      PROVE  FreshIds' /\ PreviousKnown' /\ NoRegressionMissed'
  <2>1. UNCHANGED <<runs, request, handler>>
    BY <1>2 DEF RefuseUpload, LoseConnection
  <2>2. \A i \in Jobs : client'[i].attempt >= client[i].attempt
    BY <1>2, ConstantsAssumption
    DEF RefuseUpload, LoseConnection, AfterError, TypeInv, TypeOK, Clients
  <2>3. \A i \in Jobs : client[i].attempt \in Int /\ client'[i].attempt \in Int
    BY TypeNext, ConstantsAssumption DEF TypeInv, TypeOK, Clients
  <2>4. FreshIds'
    BY <2>1, <2>2, <2>3, ConstantsAssumption DEF FreshIds
  <2> QED
    BY <2>1, <2>4, SameRuns, OtherStepsKnown
<1>3. ASSUME NEW h \in RunIds, FindOnBranch(h)
      PROVE  FreshIds' /\ PreviousKnown' /\ NoRegressionMissed'
  <2> DEFINE found == Latest(CompleteOn(request[h[1]].project, request[h[1]].branch))
  <2>1. \A r \in found : r \in DOMAIN runs /\ runs[r].project = request[h[1]].project
    BY DEF Latest, CompleteOn, Complete, TypeInv, TypeOK
  <2> HIDE DEF found
  <2>2. PICK pc, prev : /\ Advance(h, pc, prev, NoResults, FALSE)
                        /\ prev \in found \/ prev = NoRun
    BY <1>3 DEF FindOnBranch, found
  <2>3. /\ UNCHANGED <<runs, request, client>>
        /\ \A g \in RunIds : g # h => handler'[g] = handler[g]
        /\ handler'[h].prev = prev
        /\ handler'[h].previous = NoResults
    BY <2>2 DEF Advance, TypeInv, TypeOK
  <2>4. handler[h].pc \in {"findOnBranch", "findAnywhere", "listResults"}
    BY <1>3 DEF FindOnBranch
  <2>5. FreshIds' /\ PreviousKnown'
    BY <2>1, <2>2, <2>3, <2>4, NothingRead, ReadKnown
  <2> QED
    BY <2>3, <2>5, SameRuns
<1>4. ASSUME NEW h \in RunIds, FindAnywhere(h)
      PROVE  FreshIds' /\ PreviousKnown' /\ NoRegressionMissed'
  <2> DEFINE found == Latest(Complete(request[h[1]].project))
  <2>1. \A r \in found : r \in DOMAIN runs /\ runs[r].project = request[h[1]].project
    BY DEF Latest, CompleteOn, Complete, TypeInv, TypeOK
  <2> HIDE DEF found
  <2>2. PICK pc, prev : /\ Advance(h, pc, prev, NoResults, FALSE)
                        /\ prev \in found \/ prev = NoRun
    BY <1>4 DEF FindAnywhere, found
  <2>3. /\ UNCHANGED <<runs, request, client>>
        /\ \A g \in RunIds : g # h => handler'[g] = handler[g]
        /\ handler'[h].prev = prev
        /\ handler'[h].previous = NoResults
    BY <2>2 DEF Advance, TypeInv, TypeOK
  <2>4. handler[h].pc \in {"findOnBranch", "findAnywhere", "listResults"}
    BY <1>4 DEF FindAnywhere
  <2>5. FreshIds' /\ PreviousKnown'
    BY <2>1, <2>2, <2>3, <2>4, NothingRead, ReadKnown
  <2> QED
    BY <2>3, <2>5, SameRuns
<1>5. ASSUME NEW h \in RunIds, ListPrevious(h)
      PROVE  FreshIds' /\ PreviousKnown' /\ NoRegressionMissed'
  <2> DEFINE prev == handler[h].prev
  <2>1. prev # NoRun => prev \in DOMAIN runs /\ runs[prev].project = request[h[1]].project
    BY DEF PreviousKnown
  <2>2. ASSUME NEW k \in AllKeys, PreviousResults(prev)[k] = "failed"
        PROVE  WasFailing(request[h[1]].project, k)
    <3>1. prev \in DOMAIN runs /\ k \in FailedKeys(prev)
      BY <2>2, ReadFailures
    <3>2. prev # NoRun
      BY <3>1, ConstantsAssumption DEF TypeInv, TypeOK
    <3> QED
      BY <2>1, <3>1, <3>2 DEF WasFailing
  <2> HIDE DEF prev
  <2>3. /\ handler[h].pc = "listResults"
        /\ Advance(h, "createRun", prev, PreviousResults(prev), FALSE)
    BY <1>5 DEF ListPrevious, prev
  <2>4. /\ UNCHANGED <<runs, request, client>>
        /\ \A g \in RunIds : g # h => handler'[g] = handler[g]
        /\ handler'[h].prev = prev
        /\ handler'[h].previous = PreviousResults(prev)
    BY <2>3 DEF Advance, TypeInv, TypeOK
  <2>5. FreshIds' /\ PreviousKnown'
    BY <2>1, <2>2, <2>3, <2>4, ReadKnown
  <2> QED
    BY <2>4, <2>5, SameRuns
<1>6. ASSUME NEW h \in RunIds, IgnoreReadError(h)
      PROVE  FreshIds' /\ PreviousKnown' /\ NoRegressionMissed'
  <2>1. /\ UNCHANGED <<runs, request, client>>
        /\ \A g \in RunIds : g # h => handler'[g] = handler[g]
        /\ handler'[h].prev = handler[h].prev
        /\ handler'[h].previous = NoResults
    BY <1>6 DEF IgnoreReadError, Advance, TypeInv, TypeOK
  <2>2. FreshIds' /\ PreviousKnown'
    BY <1>6, <2>1, NothingRead, ReadKnown DEF IgnoreReadError, PreviousKnown
  <2> QED
    BY <2>1, <2>2, SameRuns
<1>7. ASSUME NEW h \in RunIds, CreateRun(h)
      PROVE  FreshIds' /\ PreviousKnown' /\ NoRegressionMissed'
    BY <1>7, CreateRunKnown
<1>8. ASSUME NEW h \in RunIds, RespondCreated(h) \/ RespondError(h)
      PROVE  FreshIds' /\ PreviousKnown' /\ NoRegressionMissed'
  <2>1. UNCHANGED <<runs, request>>
    BY <1>8 DEF RespondCreated, RespondError
  <2>2. \A g \in RunIds : handler'[g] = IF g = h THEN Closed ELSE handler[g]
    BY <1>8 DEF RespondCreated, RespondError, TypeInv, TypeOK
  <2>3. \A i \in Jobs : client'[i].attempt = client[i].attempt
    BY <1>8 DEF RespondCreated, RespondError, AfterError, TypeInv, TypeOK, Clients
  <2>4. handler[h].pc # "idle"
    BY <1>8 DEF RespondCreated, RespondError
  <2>5. \A i \in Jobs, b \in 1 .. MaxAttempts :
          client'[i].attempt < b => handler'[<<i, b>>].pc = "idle"
    BY <2>2, <2>3, <2>4 DEF FreshIds, RunIds
  <2>6. \A g \in DOMAIN runs : handler'[g].pc \in {"respond", "closed"}
    BY <2>2, EmptyHanded DEF FreshIds, TypeInv, TypeOK
  <2>7. FreshIds'
    BY <2>1, <2>5, <2>6 DEF FreshIds
  <2> QED
    BY <2>1, <2>2, <2>7, EmptyHanded, SameRuns, OtherStepsKnown
<1>9. ASSUME NEW p \in Projects, DeleteProject(p)
      PROVE  FreshIds' /\ PreviousKnown' /\ NoRegressionMissed'
  <2>1. UNCHANGED <<runs, request, client, handler>>
    BY <1>9 DEF DeleteProject
  <2>2. FreshIds'
    BY <2>1 DEF FreshIds
  <2> QED
    BY <2>1, <2>2, SameRuns, OtherStepsKnown
<1>10. CASE Crash
  <2>1. UNCHANGED <<runs, request>>
    BY <1>10 DEF Crash
  <2>2. \A g \in RunIds : handler'[g] = IF handler[g].pc = "idle" THEN handler[g] ELSE Closed
    BY <1>10 DEF Crash
  <2>3. \A i \in Jobs : client'[i].attempt = client[i].attempt
    BY <1>10 DEF Crash, AfterError, TypeInv, TypeOK, Clients
  <2>4. \A i \in Jobs, b \in 1 .. MaxAttempts :
          client'[i].attempt < b => handler'[<<i, b>>].pc = "idle"
    BY <2>2, <2>3 DEF FreshIds, RunIds
  <2>5. \A g \in DOMAIN runs : handler'[g].pc \in {"respond", "closed"}
    BY <2>2, EmptyHanded DEF FreshIds, TypeInv, TypeOK
  <2>6. FreshIds'
    BY <2>1, <2>4, <2>5 DEF FreshIds
  <2> QED
    BY <2>1, <2>2, <2>6, EmptyHanded, SameRuns, OtherStepsKnown
<1>11. CASE UNCHANGED vars
  <2>1. UNCHANGED <<runs, request, client, handler>>
    BY <1>11 DEF vars
  <2>2. FreshIds'
    BY <2>1 DEF FreshIds
  <2> QED
    BY <2>1, <2>2, SameRuns, OtherStepsKnown
<1>12. ASSUME PruneRuns \/ Tick
       PROVE  FreshIds' /\ PreviousKnown' /\ NoRegressionMissed'
  <2>1. UNCHANGED <<runs, request, client, handler>>
    BY <1>12 DEF PruneRuns, Tick
  <2>2. FreshIds'
    BY <2>1 DEF FreshIds
  <2> QED
    BY <2>1, <2>2, SameRuns, OtherStepsKnown
<1> QED
    BY <1>1, <1>2, <1>3, <1>4, <1>5, <1>6, <1>7, <1>8, <1>9, <1>10, <1>11, <1>12
    DEF Next, ClientStep, HandlerStep

\* Whatever the uploads, retries, crashes, read errors, prunes and deletions do
\* and in whatever order: every failing test of a recorded run was announced as
\* a regression by a recorded run of its project (ingestRun, CreateRun).
THEOREM RegressionsAreAnnounced == Spec => []NoRegressionMissed
<1>1. Init => IngestInv /\ NoRegressionMissed
    BY IngestInit
<1>2. IngestInv /\ NoRegressionMissed /\ [Next]_vars => (IngestInv /\ NoRegressionMissed)'
    BY IngestNext
<1> QED
    BY <1>1, <1>2, PTL DEF Spec

-----------------------------------------------------------------------------
(* Refinement of RunHistory.                                               *)

\* Where the recorded runs do not change, the recorded history does not.
LEMMA SameHistory == UNCHANGED <<runs, request>> => UNCHANGED RecordedHistory
BY DEF RecordedHistory, FailedKeys, FlaggedKeys

\* What the abstract history knows to fail is what recorded runs show to fail.
LEMMA KnownFailuresAreRecorded ==
    ASSUME NEW p, NEW k, WasFailing(p, k)
    PROVE  k \in History!KnownFailures(p)
<1>1. PICK q \in DOMAIN runs : runs[q].project = p /\ k \in FailedKeys(q)
    BY DEF WasFailing
<1>2. /\ q \in DOMAIN RecordedHistory
      /\ RecordedHistory[q].project = p
      /\ RecordedHistory[q].failed = FailedKeys(q)
    BY <1>1 DEF RecordedHistory
<1> QED
    BY <1>1, <1>2 DEF History!KnownFailures

\* The transaction of CreateRun is the step that records a run.
LEMMA CreateRunRecords ==
    ASSUME IngestInv, NEW h \in RunIds, CreateRun(h)
    PROVE  History!Next
<1> DEFINE e == [project |-> request[h[1]].project,
                 failed  |-> FailedKeys(h)',
                 flagged |-> FlaggedKeys(h)']
<1>1. /\ h \notin DOMAIN runs
      /\ DOMAIN runs' = DOMAIN runs \cup {h}
      /\ \A r \in DOMAIN runs : /\ runs'[r] = runs[r]
                                /\ FailedKeys(r)' = FailedKeys(r)
                                /\ FlaggedKeys(r)' = FlaggedKeys(r)
    BY RecordedRunsStay DEF IngestInv
<1>2. runs'[h].project = request[h[1]].project
  <2>1. RunRecord(h).project = request[h[1]].project
    BY DEF RunRecord
  <2> QED
    BY <2>1, RecordedRunsStay DEF IngestInv
<1>3. /\ FlaggedKeys(h)' \subseteq FailedKeys(h)'
      /\ FailedKeys(h)' \subseteq AllKeys
      /\ \A k \in FailedKeys(h)' \ FlaggedKeys(h)' : WasFailing(request[h[1]].project, k)
    BY NewRunExplained
<1>4. e \in History!Entries
    BY <1>3, ReportRows DEF IngestInv, TypeInv, History!Entries
<1>5. e.failed \ e.flagged \subseteq History!KnownFailures(e.project)
    BY <1>3, KnownFailuresAreRecorded
<1>6. DOMAIN RecordedHistory = DOMAIN runs
    BY DEF RecordedHistory
<1>7. RecordedHistory' = [q \in DOMAIN RecordedHistory \cup {h} |->
                            IF q = h THEN e ELSE RecordedHistory[q]]
    BY <1>1, <1>2, <1>6 DEF RecordedHistory
<1>8. live' = live \cup {h}
    BY DEF CreateRun
<1> HIDE DEF e
<1>9. e.flagged \subseteq e.failed
    BY <1>3 DEF e
<1>10. History!Record(h, e)
    BY <1>1, <1>5, <1>6, <1>7, <1>8, <1>9 DEF History!Record
<1> QED
    BY <1>4, <1>10 DEF History!Next

\* Every other step withdraws runs or leaves the history as it is.
LEMMA OtherStepsWithdraw ==
    ASSUME IngestInv, [Next]_vars, \A h \in RunIds : ~ CreateRun(h)
    PROVE  History!Withdraw
<1>1. UNCHANGED <<runs, request>> /\ live' \subseteq live
    BY DEF Next, ClientStep, HandlerStep, StartUpload, RefuseUpload, LoseConnection,
           FindOnBranch, FindAnywhere, ListPrevious, IgnoreReadError, Advance,
           RespondCreated, RespondError, PruneRuns, DeleteProject, Crash, Tick, vars
<1> QED
    BY <1>1, SameHistory DEF History!Withdraw

\* The upload path with its prune and its crashes is an implementation of the
\* history of runs: CreateRun is the only step that shows, everything between
\* the first read of a handler and its transaction is invisible.
THEOREM IngestImplementsRunHistory == Spec => ImplementsRunHistory
<1>1. Init => History!Init
    BY DEF Init, History!Init, RecordedHistory
<1>2. IngestInv /\ [Next]_vars => [History!Next]_History!hvars
  <2> SUFFICES ASSUME IngestInv, [Next]_vars PROVE History!Next
    OBVIOUS
  <2>1. CASE \E h \in RunIds : CreateRun(h)
    BY <2>1, CreateRunRecords
  <2>2. CASE \A h \in RunIds : ~ CreateRun(h)
    BY <2>2, OtherStepsWithdraw DEF History!Next
  <2> QED
    BY <2>1, <2>2
<1>3. Init => IngestInv /\ NoRegressionMissed
    BY IngestInit
<1>4. IngestInv /\ NoRegressionMissed /\ [Next]_vars => (IngestInv /\ NoRegressionMissed)'
    BY IngestNext
<1> QED
    BY <1>1, <1>2, <1>3, <1>4, PTL DEF Spec, History!Spec, ImplementsRunHistory

-----------------------------------------------------------------------------
(* The steps that change tables.                                           *)

LEMMA IngestInvariance == Spec => []IngestInv
  BY IngestInit, IngestNext, PTL DEF Spec

\* Every step but three leaves the tables alone, and the clock goes on.
LEMMA TablesStay ==
    ASSUME [Next]_vars, ~ \E h \in RunIds : CreateRun(h), ~ PruneRuns,
           ~ \E p \in Projects : DeleteProject(p), now \in Nat
    PROVE  UNCHANGED <<projects, runs, live, tests, request>> /\ now' \in Nat /\ now <= now'
<1>1. CASE Tick
  BY <1>1 DEF Tick
<1>2. ASSUME NEW j \in Jobs, ClientStep(j) \/ LoseConnection(j)
      PROVE  UNCHANGED <<now, projects, runs, live, tests, request>>
  BY <1>2 DEF ClientStep, StartUpload, RefuseUpload, LoseConnection
<1>3. ASSUME NEW h \in RunIds, HandlerStep(h)
      PROVE  UNCHANGED <<now, projects, runs, live, tests, request>>
  BY <1>3 DEF HandlerStep, FindOnBranch, FindAnywhere, ListPrevious, IgnoreReadError,
              Advance, RespondCreated, RespondError
<1>4. CASE Crash \/ UNCHANGED vars
  BY <1>4 DEF Crash, vars
<1> QED
  BY <1>1, <1>2, <1>3, <1>4 DEF Next

\* What CreateRun does to the tables.
LEMMA TablesGrow ==
    ASSUME IngestInv, NEW h \in RunIds, CreateRun(h)
    PROVE  /\ h \notin DOMAIN runs /\ DOMAIN runs' = DOMAIN runs \cup {h}
           /\ runs'[h] = RunRecord(h)
           /\ \A r \in DOMAIN runs : runs'[r] = runs[r]
           /\ RunRecord(h) \in RunRecords
           /\ RunRecord(h).project = request[h[1]].project
           /\ RunRecord(h).project \in projects
           /\ live' = live \cup {h}
           /\ tests' = tests \cup CatalogueEntries(RunRecord(h))
           /\ UNCHANGED <<now, projects, request, client>>
<1>1. RunRecord(h).project = request[h[1]].project
  BY DEF RunRecord
<1> QED
  BY <1>1, RecordedRunsStay, RunRecordType DEF IngestInv, TypeInv, CreateRun, ProjectExists

-----------------------------------------------------------------------------
(* Deleted projects.                                                       *)

LEMMA EmptyNext ==
    ASSUME IngestInv, DeletedProjectStaysEmpty, [Next]_vars
    PROVE  DeletedProjectStaysEmpty'
<1> USE DEF DeletedProjectStaysEmpty
<1>1. live \subseteq DOMAIN runs
  BY DEF IngestInv, TypeInv, TypeOK
<1>2. ASSUME NEW h \in RunIds, CreateRun(h) PROVE DeletedProjectStaysEmpty'
  <2>1. \A t \in CatalogueEntries(RunRecord(h)) : t[1] = RunRecord(h).project
    BY DEF CatalogueEntries
  <2> QED
    BY <1>1, <1>2, <2>1, TablesGrow
<1>3. CASE PruneRuns
  BY <1>3 DEF PruneRuns
<1>4. ASSUME NEW p \in Projects, DeleteProject(p) PROVE DeletedProjectStaysEmpty'
  BY <1>4 DEF DeleteProject
<1>5. now \in Nat
  BY DEF IngestInv, TypeInv, TypeOK
<1> QED
  BY <1>2, <1>3, <1>4, <1>5, TablesStay

\* Nothing of a deleted project comes back, for any number of uploads under way.
THEOREM DeletedProjectsStayEmpty == Spec => []DeletedProjectStaysEmpty
<1>1. Init => DeletedProjectStaysEmpty
  BY DEF Init, DeletedProjectStaysEmpty
<1>2. IngestInv /\ DeletedProjectStaysEmpty /\ [Next]_vars => DeletedProjectStaysEmpty'
  BY EmptyNext
<1> QED
  BY <1>1, <1>2, IngestInvariance, PTL DEF Spec

-----------------------------------------------------------------------------
(* Acknowledged runs.                                                      *)

\* A recorded run is there unless it is old or its project is gone.
RunsAreKept ==
    \A r \in DOMAIN runs :
        \/ r \in live
        \/ runs[r].uploadedAt + RunRetention < now
        \/ runs[r].project \notin projects

\* Who answers 201 or has been answered 201 has a recorded run.
AnswersAreRecorded ==
    /\ \A h \in RunIds : handler[h].pc = "respond" => h \in DOMAIN runs
    /\ \A j \in Jobs : client[j].state = "acked" => <<j, client[j].attempt>> \in DOMAIN runs

LEMMA KeptNext ==
    ASSUME IngestInv, RunsAreKept, [Next]_vars
    PROVE  RunsAreKept'
<1> USE DEF RunsAreKept
<1>1. /\ now \in Nat /\ live \subseteq DOMAIN runs
      /\ \A r \in DOMAIN runs : runs[r].uploadedAt \in Nat
      /\ RunRetention \in Nat
  BY ConstantsAssumption DEF IngestInv, TypeInv, TypeOK, RunRecords
<1>2. ASSUME NEW h \in RunIds, CreateRun(h) PROVE RunsAreKept'
  BY <1>2, TablesGrow
<1>3. CASE PruneRuns
  <2>1. PICK cutoff \in 0 .. now :
          /\ cutoff + RunRetention <= now
          /\ live' = {r \in live : ~ Expired(r, cutoff)}
          /\ UNCHANGED <<now, projects, runs>>
    BY <1>3 DEF PruneRuns
  <2>2. \A r \in live \ live' : runs[r].uploadedAt + RunRetention < now
    BY <1>1, <2>1 DEF Expired
  <2> QED
    BY <2>1, <2>2
<1>4. ASSUME NEW p \in Projects, DeleteProject(p) PROVE RunsAreKept'
  BY <1>4 DEF DeleteProject
<1>5. CASE UNCHANGED <<projects, runs, live>> /\ now' \in Nat /\ now <= now'
  BY <1>1, <1>5
<1> QED
  BY <1>1, <1>2, <1>3, <1>4, <1>5, TablesStay

LEMMA AnswersNext ==
    ASSUME IngestInv, AnswersAreRecorded, [Next]_vars
    PROVE  AnswersAreRecorded'
<1> USE DEF AnswersAreRecorded
<1>1. /\ client \in [Jobs -> Clients] /\ handler \in [RunIds -> Handlers]
      /\ \A h \in RunIds : h[1] \in Jobs /\ h = <<h[1], h[2]>>
  BY DEF IngestInv, TypeInv, TypeOK, RunIds
<1>2. \A c \in Clients : c.state = "waiting" => AfterError(c).state # "acked"
  BY AfterErrorType
<1>3. ASSUME NEW j \in Jobs, ClientStep(j) \/ LoseConnection(j)
      PROVE  AnswersAreRecorded'
  <2>1. /\ runs' = runs
        /\ \A i \in Jobs : client'[i].state = "acked" => client'[i] = client[i]
    <3>1. CASE StartUpload(j)
      BY <1>1, <3>1 DEF StartUpload
    <3>2. CASE RefuseUpload(j)
      <4>1. [state |-> "waiting", attempt |-> client[j].attempt + 1] \in Clients
        BY <1>1, <3>2, ConstantsAssumption
           DEF RefuseUpload, IngestInv, TypeInv, AttemptLeft, Clients
      <4> QED
        BY <1>1, <1>2, <3>2, <4>1 DEF RefuseUpload
    <3>3. CASE LoseConnection(j)
      BY <1>1, <1>2, <3>3 DEF LoseConnection
    <3> QED
      BY <1>3, <3>1, <3>2, <3>3 DEF ClientStep
  <2>2. \A h \in RunIds : handler'[h].pc = "respond" => handler'[h] = handler[h]
    BY <1>1, <1>3 DEF ClientStep, StartUpload, RefuseUpload, LoseConnection, IdleHandler
  <2> QED
    BY <2>1, <2>2
<1>4. ASSUME NEW h \in RunIds, HandlerStep(h)
      PROVE  AnswersAreRecorded'
  <2>1. CASE FindOnBranch(h) \/ FindAnywhere(h) \/ ListPrevious(h) \/ IgnoreReadError(h)
    BY <1>1, <2>1 DEF FindOnBranch, FindAnywhere, ListPrevious, IgnoreReadError, Advance
  <2>2. CASE CreateRun(h)
    BY <1>1, <2>2, TablesGrow DEF CreateRun
  <2>3. CASE RespondCreated(h)
    <3>1. \A i \in Jobs : \/ client'[i] = client[i]
                          \/ i = h[1] /\ client'[i].attempt = h[2]
      <4>1. CASE Awaits(h)
        <5>1. client' = [client EXCEPT ![h[1]] = [client[h[1]] EXCEPT !.state = "acked"]]
          BY <2>3, <4>1 DEF RespondCreated
        <5>2. client[h[1]] = [state |-> "waiting", attempt |-> h[2]]
          BY <4>1 DEF Awaits
        <5> QED
          BY <1>1, <5>1, <5>2
      <4>2. CASE ~ Awaits(h)
        BY <2>3, <4>2 DEF RespondCreated
      <4> QED
        BY <4>1, <4>2
    <3>2. \A g \in RunIds : handler'[g].pc = "respond" => handler'[g] = handler[g]
      BY <1>1, <2>3, EmptyHanded DEF RespondCreated
    <3>3. /\ h = <<h[1], h[2]>> /\ h \in DOMAIN runs
          /\ runs' = runs
      BY <1>1, <2>3 DEF RespondCreated
    <3>4. \A i \in Jobs : client'[i].state = "acked" =>
                           <<i, client'[i].attempt>> \in DOMAIN runs
      BY <3>1, <3>3
    <3> QED
      BY <3>2, <3>3, <3>4
  <2>4. CASE RespondError(h)
    <3>1. \A i \in Jobs : client'[i].state = "acked" => client'[i] = client[i]
      BY <1>1, <1>2, <2>4 DEF RespondError, Awaits
    <3>2. \A g \in RunIds : handler'[g].pc = "respond" => handler'[g] = handler[g]
      BY <1>1, <2>4, EmptyHanded DEF RespondError
    <3> QED
      BY <2>4, <3>1, <3>2 DEF RespondError
  <2> QED
    BY <1>4, <2>1, <2>2, <2>3, <2>4 DEF HandlerStep
<1>5. CASE Crash
  <2>1. \A g \in RunIds : handler'[g].pc # "respond"
    BY <1>1, <1>5, EmptyHanded DEF Crash
  <2>2. \A i \in Jobs : client'[i].state = "acked" => client'[i] = client[i]
    BY <1>1, <1>2, <1>5 DEF Crash
  <2> QED
    BY <1>5, <2>1, <2>2 DEF Crash
<1>6. CASE Tick \/ PruneRuns \/ UNCHANGED vars
  BY <1>6 DEF Tick, PruneRuns, vars
<1>7. ASSUME NEW p \in Projects, DeleteProject(p)
      PROVE  AnswersAreRecorded'
  BY <1>7 DEF DeleteProject
<1> QED
  BY <1>3, <1>4, <1>5, <1>6, <1>7 DEF Next

\* Who was answered 201 finds his run, however many jobs and crashes there are.
THEOREM AcknowledgedRunsAreKept == Spec => []AcknowledgedRunIsKept
<1>1. Init => RunsAreKept /\ AnswersAreRecorded
  BY DEF Init, RunsAreKept, AnswersAreRecorded, IdleHandler
<1>2. IngestInv /\ RunsAreKept /\ AnswersAreRecorded /\ [Next]_vars
        => RunsAreKept' /\ AnswersAreRecorded'
  BY KeptNext, AnswersNext
<1>3. RunsAreKept /\ AnswersAreRecorded => AcknowledgedRunIsKept
  BY DEF RunsAreKept, AnswersAreRecorded, AcknowledgedRunIsKept
<1> QED
  BY <1>1, <1>2, <1>3, IngestInvariance, PTL DEF Spec

-----------------------------------------------------------------------------
(* What a step does to one run and to one handler.                         *)

LEMMA RunsChange ==
    ASSUME IngestInv, [Next]_vars
    PROVE  /\ request' = request /\ now \in Nat /\ now' \in Nat /\ now <= now'
           /\ live \subseteq DOMAIN runs /\ live' \subseteq DOMAIN runs'
           /\ \A r \in DOMAIN runs : r \in DOMAIN runs' /\ runs'[r] = runs[r]
           /\ \A r \in DOMAIN runs' \ DOMAIN runs :
                r \in RunIds /\ CreateRun(r) /\ runs'[r] = RunRecord(r)
           /\ \A r \in live' : r \in DOMAIN runs => r \in live
<1>1. now \in Nat /\ live \subseteq DOMAIN runs
  BY DEF IngestInv, TypeInv, TypeOK
<1>2. ASSUME NEW h \in RunIds, CreateRun(h)
      PROVE  /\ UNCHANGED <<now, request>>
             /\ DOMAIN runs' = DOMAIN runs \cup {h} /\ live' = live \cup {h}
             /\ runs'[h] = RunRecord(h) /\ h \notin DOMAIN runs
             /\ \A r \in DOMAIN runs : runs'[r] = runs[r]
  BY <1>2, TablesGrow
<1>3. CASE PruneRuns \/ \E p \in Projects : DeleteProject(p)
  <2>1. UNCHANGED <<now, runs, request>> /\ live' \subseteq live
    BY <1>3 DEF PruneRuns, DeleteProject
  <2> QED
    BY <1>1, <2>1
<1>4. CASE \E h \in RunIds : CreateRun(h)
  <2>1. PICK h \in RunIds : CreateRun(h)
    BY <1>4
  <2>2. /\ UNCHANGED <<now, request>>
        /\ DOMAIN runs' = DOMAIN runs \cup {h} /\ live' = live \cup {h}
        /\ runs'[h] = RunRecord(h) /\ h \notin DOMAIN runs
        /\ \A r \in DOMAIN runs : runs'[r] = runs[r]
    BY <1>2, <2>1
  <2>3. \A r \in DOMAIN runs' \ DOMAIN runs : r = h
    BY <2>2
  <2> QED
    BY <1>1, <2>1, <2>2, <2>3
<1>5. CASE UNCHANGED <<runs, live, request>> /\ now' \in Nat /\ now <= now'
  BY <1>1, <1>5
<1> QED
  BY <1>1, <1>3, <1>4, <1>5, TablesStay

\* A step leaves a handler alone, lets it begin, go on or end.
LEMMA HandlerChanges ==
    ASSUME IngestInv, [Next]_vars, NEW h \in RunIds
    PROVE  \/ handler'[h] = handler[h]
           \/ handler'[h].pc = "findOnBranch" /\ handler'[h].uploadedAt = now
           \/ handler'[h].pc \in {"respond", "closed"} /\ handler'[h].uploadedAt = 0
           \/ FindOnBranch(h) \/ FindAnywhere(h) \/ ListPrevious(h) \/ IgnoreReadError(h)
<1>1. handler \in [RunIds -> Handlers]
  BY DEF IngestInv, TypeInv, TypeOK
<1>2. /\ Closed.uploadedAt = 0 /\ Closed.pc = "closed"
      /\ [IdleHandler EXCEPT !.pc = "respond"].uploadedAt = 0
      /\ [IdleHandler EXCEPT !.pc = "respond"].pc = "respond"
      /\ [IdleHandler EXCEPT !.pc = "findOnBranch", !.uploadedAt = now].pc = "findOnBranch"
      /\ [IdleHandler EXCEPT !.pc = "findOnBranch", !.uploadedAt = now].uploadedAt = now
  BY DEF Closed, IdleHandler
<1>3. ASSUME NEW j \in Jobs, StartUpload(j)
      PROVE  \/ handler'[h] = handler[h]
             \/ handler'[h].pc = "findOnBranch" /\ handler'[h].uploadedAt = now
  BY <1>1, <1>2, <1>3 DEF StartUpload
<1>4. ASSUME NEW g \in RunIds, HandlerStep(g), g # h
      PROVE  handler'[h] = handler[h]
  BY <1>1, <1>4 DEF HandlerStep, FindOnBranch, FindAnywhere, ListPrevious, IgnoreReadError,
                    Advance, CreateRun, RespondCreated, RespondError
<1>5. CASE CreateRun(h) \/ RespondCreated(h) \/ RespondError(h)
  BY <1>1, <1>2, <1>5 DEF CreateRun, RespondCreated, RespondError
<1>6. CASE Crash
  BY <1>1, <1>2, <1>6 DEF Crash
<1>7. ASSUME NEW j \in Jobs, RefuseUpload(j) \/ LoseConnection(j)
      PROVE  handler'[h] = handler[h]
  BY <1>7 DEF RefuseUpload, LoseConnection
<1>8. CASE Tick \/ PruneRuns \/ UNCHANGED vars \/ \E p \in Projects : DeleteProject(p)
  BY <1>8 DEF Tick, PruneRuns, DeleteProject, vars
<1> QED
  BY <1>3, <1>4, <1>5, <1>6, <1>7, <1>8 DEF Next, HandlerStep, ClientStep

-----------------------------------------------------------------------------
(* Predecessors.  A handler decides what is a regression before its run is  *)
(* recorded, from rows it read through the catalogue; so the invariant has  *)
(* to say that the catalogue hides nothing of a stored run, and that what a *)
(* handler holds is what its predecessor says, for as long as that is there. *)

CatalogueIsComplete ==
    \A r \in live : \A i \in DOMAIN runs[r].rows :
        runs[r].rows[i].key # NoKey => <<runs[r].project, runs[r].rows[i].key>> \in tests

\* Handler h holds what its predecessor says.
HoldsItsResults(h) ==
    (/\ handler[h].pc = "createRun"
     /\ ~ handler[h].blind
     /\ handler[h].prev \in live) =>
        \A k \in Keys :
            handler[h].previous[k] = "failed" <=> k \in FailedKeys(handler[h].prev)

PredecessorsAgree ==
    /\ CatalogueIsComplete
    /\ \A r \in DOMAIN runs : runs[r].prev \in DOMAIN runs \cup {NoRun}
    /\ \A h \in RunIds : HoldsItsResults(h)
    /\ RegressionRelativeToPrevious

LEMMA CatalogueNext ==
    ASSUME IngestInv, CatalogueIsComplete, [Next]_vars
    PROVE  CatalogueIsComplete'
<1> USE DEF CatalogueIsComplete
<1>1. now \in Nat /\ live \subseteq DOMAIN runs
  BY DEF IngestInv, TypeInv, TypeOK
<1>2. ASSUME NEW h \in RunIds, CreateRun(h) PROVE CatalogueIsComplete'
  <2>1. \A i \in DOMAIN RunRecord(h).rows :
          RunRecord(h).rows[i].key # NoKey =>
            <<RunRecord(h).project, RunRecord(h).rows[i].key>> \in CatalogueEntries(RunRecord(h))
    BY DEF CatalogueEntries
  <2>2. /\ runs'[h] = RunRecord(h) /\ live' = live \cup {h}
        /\ \A r \in live : runs'[r] = runs[r]
        /\ tests' = tests \cup CatalogueEntries(RunRecord(h))
    BY <1>1, <1>2, TablesGrow
  <2>3. \A i \in DOMAIN runs'[h].rows :
          runs'[h].rows[i].key # NoKey =>
            <<runs'[h].project, runs'[h].rows[i].key>> \in tests'
    BY <2>1, <2>2
  <2> QED
    BY <2>2, <2>3
<1>3. CASE PruneRuns
  BY <1>3 DEF PruneRuns
<1>4. ASSUME NEW p \in Projects, DeleteProject(p) PROVE CatalogueIsComplete'
  BY <1>4 DEF DeleteProject
<1>5. CASE UNCHANGED <<runs, live, tests>>
  BY <1>5
<1> QED
  BY <1>1, <1>2, <1>3, <1>4, <1>5, TablesStay

\* ListRunResults of a stored run tells the failures of all tests with a key.
LEMMA FailuresAreListed ==
    ASSUME CatalogueIsComplete, NEW r \in live, NEW k \in Keys
    PROVE  PreviousResults(r)[k] = "failed" <=> k \in FailedKeys(r)
<1> DEFINE listed == {i \in Listed(r) : r \in live /\ runs[r].rows[i].key = k}
<1>1. k # NoKey /\ k \in AllKeys
  BY ConstantsAssumption DEF AllKeys
<1>2. listed = {i \in DOMAIN runs[r].rows : runs[r].rows[i].key = k}
  BY <1>1 DEF Listed, CatalogueIsComplete
<1>3. PreviousResults(r)[k] = LastStatus({runs[r].rows[i].status : i \in listed})
  BY <1>1 DEF PreviousResults
<1>4. PreviousResults(r)[k] = "failed" <=> "failed" \in {runs[r].rows[i].status : i \in listed}
  BY <1>3, LastStatusFailed
<1> QED
  BY <1>2, <1>4 DEF FailedKeys

\* What a run says of its failures, seen from its request's handler.
LEMMA NewRunCompares ==
    ASSUME NEW h \in RunIds, NEW i \in DOMAIN RunRecord(h).rows
    PROVE  RunRecord(h).rows[i].regression <=>
             /\ RunRecord(h).rows[i].status = "failed"
             /\ handler[h].previous[RunRecord(h).rows[i].key] # "failed"
<1>1. CASE request[h[1]].report.broken
  <2>1. RunRecord(h).rows = <<>>
    BY <1>1 DEF RunRecord
  <2> QED
    BY <2>1
<1>2. CASE ~ request[h[1]].report.broken
  <2>1. RunRecord(h).rows = Classified(request[h[1]].report.rows, handler[h].previous)
    BY <1>2 DEF RunRecord
  <2>2. i \in DOMAIN request[h[1]].report.rows
    BY <2>1 DEF Classified
  <2> QED
    BY <2>1, <2>2, ClassifiedFields
<1> QED
  BY <1>1, <1>2

\* What a handler has read stays true while its predecessor is stored.
LEMMA HoldsNext ==
    ASSUME IngestInv, CatalogueIsComplete, [Next]_vars, NEW h \in RunIds, HoldsItsResults(h)
    PROVE  HoldsItsResults(h)'
<1> USE DEF HoldsItsResults
<1>1. handler \in [RunIds -> Handlers]
  BY DEF IngestInv, TypeInv, TypeOK
<1>2. handler[h].prev \in DOMAIN runs \cup {NoRun}
  BY DEF IngestInv, PreviousKnown
<1>3. CASE handler'[h] = handler[h]
  <2>1. CASE handler[h].prev \in DOMAIN runs
    <3>1. runs'[handler[h].prev] = runs[handler[h].prev]
      BY <2>1, RunsChange
    <3>2. handler[h].prev \in live' => handler[h].prev \in live
      BY <2>1, RunsChange
    <3> QED
      BY <1>3, <3>1, <3>2 DEF FailedKeys
  <2>2. CASE handler[h].prev = NoRun
    <3>1. NoRun \notin live'
      BY ConstantsAssumption, TypeNext DEF IngestInv, TypeInv, TypeOK
    <3> QED
      BY <1>3, <2>2, <3>1
  <2> QED
    BY <1>2, <2>1, <2>2
<1>4. CASE handler'[h].pc # "createRun"
  BY <1>4
<1>5. CASE ListPrevious(h)
  <2>1. /\ UNCHANGED <<runs, live>> /\ handler'[h].prev = handler[h].prev
        /\ handler'[h].previous = PreviousResults(handler[h].prev)
    BY <1>1, <1>5 DEF ListPrevious, Advance
  <2>2. \A r : FailedKeys(r)' = FailedKeys(r)
    BY <2>1 DEF FailedKeys
  <2>3. ASSUME handler[h].prev \in live
        PROVE  \A k \in Keys : handler'[h].previous[k] = "failed" <=> k \in FailedKeys(handler[h].prev)
    BY <2>1, <2>3, FailuresAreListed
  <2> QED
    BY <2>1, <2>2, <2>3
<1>6. CASE IgnoreReadError(h)
  BY <1>1, <1>6 DEF IgnoreReadError, Advance
<1>7. CASE FindOnBranch(h) \/ FindAnywhere(h)
  <2>1. handler'[h].pc = "createRun" => handler'[h].prev = NoRun /\ live' = live
    BY <1>1, <1>7 DEF FindOnBranch, FindAnywhere, Advance
  <2>2. NoRun \notin live
    BY ConstantsAssumption DEF IngestInv, TypeInv, TypeOK
  <2> QED
    BY <2>1, <2>2
<1> QED
  BY <1>3, <1>4, <1>5, <1>6, <1>7, HandlerChanges

LEMMA PredecessorsNext ==
    ASSUME IngestInv, PredecessorsAgree, [Next]_vars
    PROVE  PredecessorsAgree'
<1> USE DEF PredecessorsAgree
<1>1. CatalogueIsComplete' /\ \A h \in RunIds : HoldsItsResults(h)'
  BY CatalogueNext, HoldsNext
<1>2. \A r \in DOMAIN runs' \ DOMAIN runs :
        runs'[r].prev \in DOMAIN runs \cup {NoRun}
  <2>1. ASSUME NEW r \in RunIds
        PROVE  RunRecord(r).prev = handler[r].prev
    BY DEF RunRecord
  <2> QED
    BY <2>1, RunsChange DEF IngestInv, PreviousKnown
<1>3. \A r \in DOMAIN runs' : runs'[r].prev \in DOMAIN runs' \cup {NoRun}
  BY <1>2, RunsChange
<1>4. RegressionRelativeToPrevious'
  <2> SUFFICES ASSUME NEW r \in live', runs'[r].prev \in live', ~ runs'[r].blind,
                      NEW i \in DOMAIN runs'[r].rows, runs'[r].rows[i].key # NoKey
               PROVE  runs'[r].rows[i].regression <=>
                        /\ runs'[r].rows[i].status = "failed"
                        /\ runs'[r].rows[i].key \notin FailedKeys(runs[r].prev)'
    BY DEF RegressionRelativeToPrevious
  <2> DEFINE p == runs'[r].prev
  <2>1. NoRun \notin live'
    BY ConstantsAssumption, TypeNext DEF IngestInv, TypeInv, TypeOK
  <2>2. p \in DOMAIN runs /\ p \in live /\ runs'[p] = runs[p]
    BY <1>2, <2>1, RunsChange
  <2>3. FailedKeys(runs[r].prev)' = FailedKeys(p)
    BY <2>2 DEF FailedKeys
  <2>4. CASE r \in DOMAIN runs
    BY <2>2, <2>3, <2>4, RunsChange DEF RegressionRelativeToPrevious
  <2>5. CASE r \notin DOMAIN runs
    <3>1. r \in RunIds /\ CreateRun(r) /\ runs'[r] = RunRecord(r)
      BY <2>5, RunsChange
    <3>2. /\ handler[r].pc = "createRun" /\ ~ handler[r].blind /\ handler[r].prev = p
      BY <3>1 DEF CreateRun, RunRecord
    <3>3. runs'[r].rows[i].key \in Keys
      <4>1. runs'[r].rows \in Rows
        BY <3>1, RunRecordType DEF IngestInv, TypeInv, RunRecords
      <4> QED
        BY <4>1, RowTypes DEF AllKeys
    <3>4. handler[r].previous[runs'[r].rows[i].key] = "failed" <=>
            runs'[r].rows[i].key \in FailedKeys(p)
      BY <2>2, <3>1, <3>2, <3>3 DEF HoldsItsResults
    <3> QED
      BY <2>3, <3>1, <3>4, NewRunCompares
  <2> QED
    BY <2>4, <2>5
<1> QED
  BY <1>1, <1>3, <1>4

\* A stored run and its stored predecessor agree on what is a regression,
\* whatever was pruned, deleted or uploaded between reading and writing.
THEOREM RunsAgreeWithPredecessors == Spec => []RegressionRelativeToPrevious
<1>1. Init => PredecessorsAgree
  BY DEF Init, PredecessorsAgree, CatalogueIsComplete, HoldsItsResults, IdleHandler,
         RegressionRelativeToPrevious
<1>2. IngestInv /\ PredecessorsAgree /\ [Next]_vars => PredecessorsAgree'
  BY PredecessorsNext
<1>3. PredecessorsAgree => RegressionRelativeToPrevious
  BY DEF PredecessorsAgree
<1> QED
  BY <1>1, <1>2, <1>3, IngestInvariance, PTL DEF Spec

-----------------------------------------------------------------------------
(* Finished runs.  Whoever looks for a predecessor sees what was stored      *)
(* before he began, and the clock tells: a run that is stored now cannot    *)
(* have been stored before the upload of a handler that is at work.         *)

\* p is a complete run, stored before a time, of a project and a branch.
FinishedBefore(p, project, branch, time) ==
    /\ runs[p].status = "complete"
    /\ runs[p].project = project
    /\ runs[p].branch = branch
    /\ runs[p].committedAt < time

\* prev is a complete run of a project's branch that is no older than p.
NoOlder(prev, p, project, branch) ==
    /\ prev \in DOMAIN runs
    /\ runs[prev].project = project
    /\ runs[prev].branch = branch
    /\ runs[prev].status = "complete"
    /\ runs[prev].uploadedAt >= runs[p].uploadedAt

\* Handler h has met the run p, or one after it.
HasSeen(h, p) ==
    LET req == request[h[1]] IN
    FinishedBefore(p, req.project, req.branch, handler[h].uploadedAt) =>
        /\ handler[h].pc # "findAnywhere"
        /\ handler[h].pc = "listResults" \/ (handler[h].pc = "createRun" /\ ~ handler[h].blind) =>
              NoOlder(handler[h].prev, p, req.project, req.branch)

FinishedAreSeen ==
    /\ \A h \in RunIds : handler[h].uploadedAt <= now
    /\ \A r \in DOMAIN runs : runs[r].uploadedAt <= now
    /\ \A h \in RunIds, p \in live : HasSeen(h, p)
    /\ SeesFinishedRuns

\* Times do not run ahead of the clock.
LEMMA TimesNext ==
    ASSUME IngestInv, FinishedAreSeen, [Next]_vars
    PROVE  /\ \A h \in RunIds : handler'[h].uploadedAt <= now'
           /\ \A r \in DOMAIN runs' : runs'[r].uploadedAt <= now'
<1> USE DEF FinishedAreSeen
<1>1. /\ handler \in [RunIds -> Handlers]
      /\ \A h \in RunIds : handler[h].uploadedAt \in Nat
      /\ \A r \in DOMAIN runs : runs[r].uploadedAt \in Nat
  BY DEF IngestInv, TypeInv, TypeOK, Handlers, RunRecords
<1>2. now \in Nat /\ now' \in Nat /\ now <= now'
  BY RunsChange
<1>3. ASSUME NEW h \in RunIds PROVE handler'[h].uploadedAt <= now'
  <2>1. ASSUME FindOnBranch(h) \/ FindAnywhere(h) \/ ListPrevious(h) \/ IgnoreReadError(h)
        PROVE  handler'[h].uploadedAt = handler[h].uploadedAt
    BY <1>1, <2>1 DEF FindOnBranch, FindAnywhere, ListPrevious, IgnoreReadError, Advance
  <2>2. handler'[h].uploadedAt \in {handler[h].uploadedAt, now, 0}
    BY <2>1, HandlerChanges
  <2> QED
    BY <1>1, <1>2, <2>2
<1>4. ASSUME NEW r \in DOMAIN runs' PROVE runs'[r].uploadedAt <= now'
  <2>1. CASE r \in DOMAIN runs
    BY <1>1, <1>2, <2>1, RunsChange
  <2>2. CASE r \notin DOMAIN runs
    <3>1. r \in RunIds /\ runs'[r].uploadedAt = handler[r].uploadedAt
      BY <2>2, RunsChange DEF RunRecord
    <3> QED
      BY <1>1, <1>2, <3>1
  <2> QED
    BY <2>1, <2>2
<1> QED
  BY <1>3, <1>4

\* A run that a step stores was not stored before anything began.
LEMMA NewRunIsNew ==
    ASSUME IngestInv, FinishedAreSeen, [Next]_vars, NEW p \in live', p \notin DOMAIN runs,
           NEW time \in Nat, time <= now'
    PROVE  ~ runs'[p].committedAt < time
<1>1. p \in RunIds /\ CreateRun(p) /\ runs'[p].committedAt = now
  BY RunsChange DEF RunRecord
<1>2. now' = now /\ now \in Nat
  BY <1>1, RunsChange DEF CreateRun
<1> QED
  BY <1>1, <1>2

LEMMA SomeNumberIsSmallest ==
    ASSUME NEW S \in SUBSET Nat, S # {}
    PROVE  \E x \in S : \A y \in S : x <= y
<1> DEFINE less == {pair \in Nat \X Nat : pair[1] < pair[2]}
<1>1. IsWellFoundedOn(less, Nat)
  BY NatLessThanWellFounded DEF OpToRel
<1>2. \A x, y \in S : ~ (<<y, x>> \in less) => x <= y
  <2> SUFFICES ASSUME NEW x \in S, NEW y \in S, y < x PROVE <<y, x>> \in less
    OBVIOUS
  <2>1. <<y, x>> \in Nat \X Nat /\ <<y, x>>[1] = y /\ <<y, x>>[2] = x
    OBVIOUS
  <2> QED
    BY <2>1
<1> HIDE DEF less
<1>3. \E x \in S : \A y \in S : ~ (<<y, x>> \in less)
  BY <1>1, WFMin
<1> QED
  BY <1>2, <1>3

\* ORDER BY uploaded_at DESC LIMIT 1 finds a run where there is one: of the
\* runs whose times do not run ahead of the clock, one is the latest.
LEMMA SomeRunIsLatest ==
    ASSUME IngestInv, FinishedAreSeen, NEW S \in SUBSET live, S # {}
    PROVE  Latest(S) # {}
<1> DEFINE ages == {now - runs[r].uploadedAt : r \in S}
<1>1. /\ now \in Nat
      /\ \A r \in S : /\ runs[r].uploadedAt \in Nat
                      /\ runs[r].uploadedAt <= now
  BY DEF IngestInv, TypeInv, TypeOK, RunRecords, FinishedAreSeen
<1>2. ages \in SUBSET Nat
  BY <1>1
<1>3. PICK a \in ages : \A b \in ages : a <= b
  <2>1. ages # {}
    OBVIOUS
  <2> HIDE DEF ages
  <2> QED
    BY <1>2, <2>1, SomeNumberIsSmallest
<1>4. PICK r \in S : a = now - runs[r].uploadedAt
  BY <1>3
<1>5. ASSUME NEW q \in S PROVE runs[q].uploadedAt <= runs[r].uploadedAt
  <2>1. now - runs[r].uploadedAt <= now - runs[q].uploadedAt
    BY <1>3, <1>4
  <2> QED
    BY <1>1, <2>1
<1> QED
  BY <1>5 DEF Latest

\* A handler that reads keeps seeing what it has seen.
LEMMA ReadersSee ==
    ASSUME IngestInv, FinishedAreSeen, NEW h \in RunIds, NEW p \in live,
           FindOnBranch(h) \/ FindAnywhere(h) \/ ListPrevious(h) \/ IgnoreReadError(h),
           FinishedBefore(p, request[h[1]].project, request[h[1]].branch, handler[h].uploadedAt)
    PROVE  /\ handler'[h].pc # "findAnywhere"
           /\ \/ handler'[h].pc = "listResults"
              \/ handler'[h].pc = "createRun" /\ ~ handler'[h].blind
              => NoOlder(handler'[h].prev, p, request[h[1]].project, request[h[1]].branch)
<1> DEFINE project == request[h[1]].project
           branch  == request[h[1]].branch
<1>1. /\ handler \in [RunIds -> Handlers] /\ live \subseteq DOMAIN runs
      /\ \A r \in DOMAIN runs : runs[r].uploadedAt \in Nat
  BY DEF IngestInv, TypeInv, TypeOK, RunRecords
<1>2. HasSeen(h, p)
  BY DEF FinishedAreSeen
<1>3. p \in CompleteOn(project, branch)
  BY DEF FinishedBefore, CompleteOn, Complete
<1>4. CASE FindOnBranch(h)
  <2>1. ASSUME NEW r \in Latest(CompleteOn(project, branch))
        PROVE  NoOlder(r, p, project, branch)
    BY <1>1, <1>3, <2>1 DEF Latest, CompleteOn, Complete, NoOlder
  <2>2. CASE \E r \in Latest(CompleteOn(project, branch)) :
               Advance(h, "listResults", r, NoResults, FALSE)
    <3>1. PICK r \in Latest(CompleteOn(project, branch)) :
               Advance(h, "listResults", r, NoResults, FALSE)
      BY <2>2
    <3>2. handler'[h].pc = "listResults" /\ handler'[h].prev = r
      BY <1>1, <3>1 DEF Advance
    <3> QED
      BY <2>1, <3>2
  <2>3. Latest(CompleteOn(project, branch)) # {}
    <3>1. CompleteOn(project, branch) \in SUBSET live
      BY DEF CompleteOn, Complete
    <3> QED
      BY <1>3, <3>1, SomeRunIsLatest
  <2> QED
    BY <1>4, <2>2, <2>3 DEF FindOnBranch
<1>5. CASE FindAnywhere(h)
  BY <1>2, <1>5 DEF HasSeen, FindAnywhere
<1>6. CASE ListPrevious(h)
  <2>1. /\ handler'[h].pc = "createRun" /\ handler'[h].prev = handler[h].prev
        /\ handler[h].pc = "listResults"
    BY <1>1, <1>6 DEF ListPrevious, Advance
  <2> QED
    BY <1>2, <2>1 DEF HasSeen
<1>7. CASE IgnoreReadError(h)
  BY <1>1, <1>7 DEF IgnoreReadError, Advance
<1> QED
  BY <1>4, <1>5, <1>6, <1>7

LEMMA HandlersSee ==
    ASSUME IngestInv, FinishedAreSeen, [Next]_vars, NEW h \in RunIds, NEW p \in live'
    PROVE  HasSeen(h, p)'
<1> DEFINE project == request[h[1]].project
           branch  == request[h[1]].branch
<1> SUFFICES ASSUME FinishedBefore(p, project, branch, handler[h].uploadedAt)'
             PROVE  /\ handler'[h].pc # "findAnywhere"
                    /\ \/ handler'[h].pc = "listResults"
                       \/ handler'[h].pc = "createRun" /\ ~ handler'[h].blind
                       => NoOlder(handler[h].prev, p, project, branch)'
  BY DEF HasSeen
<1>1. /\ request' = request /\ handler'[h].uploadedAt \in Nat
      /\ handler'[h].uploadedAt <= now'
  BY TypeNext, TimesNext, RunsChange DEF IngestInv, TypeInv, TypeOK, Handlers
<1>2. p \in DOMAIN runs /\ p \in live /\ runs'[p] = runs[p]
  BY <1>1, NewRunIsNew, RunsChange DEF FinishedBefore
<1>3. ASSUME NEW prev, NoOlder(prev, p, project, branch)
      PROVE  NoOlder(prev, p, project, branch)'
  BY <1>1, <1>2, <1>3, RunsChange DEF NoOlder
<1>4. ASSUME handler'[h].uploadedAt = handler[h].uploadedAt
      PROVE  FinishedBefore(p, project, branch, handler[h].uploadedAt)
  BY <1>1, <1>2, <1>4 DEF FinishedBefore
<1>5. CASE handler'[h] = handler[h]
  <2>1. HasSeen(h, p)
    BY <1>2 DEF FinishedAreSeen
  <2> QED
    BY <1>3, <1>4, <1>5, <2>1 DEF HasSeen
<1>6. CASE handler'[h].pc \in {"findOnBranch", "respond", "closed"}
  BY <1>6
<1>7. CASE FindOnBranch(h) \/ FindAnywhere(h) \/ ListPrevious(h) \/ IgnoreReadError(h)
  <2>1. handler \in [RunIds -> Handlers]
    BY DEF IngestInv, TypeInv, TypeOK
  <2>2. handler'[h].uploadedAt = handler[h].uploadedAt
    BY <1>7, <2>1 DEF FindOnBranch, FindAnywhere, ListPrevious, IgnoreReadError, Advance
  <2> QED
    BY <1>2, <1>3, <1>4, <1>7, <2>2, ReadersSee
<1> QED
  BY <1>5, <1>6, <1>7, HandlerChanges

LEMMA FinishedNext ==
    ASSUME IngestInv, FinishedAreSeen, [Next]_vars
    PROVE  FinishedAreSeen'
<1>1. SeesFinishedRuns'
  <2> SUFFICES ASSUME NEW r \in live', NEW p \in live', ~ runs'[r].blind,
                      FinishedBefore(p, runs[r].project, runs[r].branch, runs[r].uploadedAt)'
               PROVE  NoOlder(runs[r].prev, p, runs[r].project, runs[r].branch)'
    BY DEF SeesFinishedRuns, FinishedBefore, NoOlder
  <2>1. r \in DOMAIN runs' /\ runs'[r].uploadedAt \in Nat /\ runs'[r].uploadedAt <= now'
    BY TypeNext, TimesNext DEF IngestInv, TypeInv, TypeOK, RunRecords
  <2>2. p \in DOMAIN runs /\ p \in live /\ runs'[p] = runs[p]
    BY <2>1, NewRunIsNew, RunsChange DEF FinishedBefore
  <2>3. CASE r \in DOMAIN runs
    <3>1. r \in live /\ runs'[r] = runs[r]
      BY <2>3, RunsChange
    <3>2. NoOlder(runs[r].prev, p, runs[r].project, runs[r].branch)
      BY <2>2, <3>1 DEF FinishedAreSeen, SeesFinishedRuns, FinishedBefore, NoOlder
    <3> QED
      BY <2>2, <3>1, <3>2, RunsChange DEF NoOlder
  <2>4. CASE r \notin DOMAIN runs
    <3>1. r \in RunIds /\ CreateRun(r) /\ runs'[r] = RunRecord(r)
      BY <2>1, <2>4, RunsChange
    <3>2. /\ runs'[r].project = request[r[1]].project
          /\ runs'[r].branch = request[r[1]].branch
          /\ runs'[r].uploadedAt = handler[r].uploadedAt
          /\ runs'[r].prev = handler[r].prev
          /\ handler[r].pc = "createRun" /\ ~ handler[r].blind
      BY <3>1 DEF CreateRun, RunRecord
    <3>3. HasSeen(r, p)
      BY <2>2, <3>1 DEF FinishedAreSeen
    <3>4. NoOlder(handler[r].prev, p, request[r[1]].project, request[r[1]].branch)
      BY <2>2, <3>2, <3>3 DEF HasSeen, FinishedBefore
    <3> QED
      BY <2>2, <3>2, <3>4, RunsChange DEF NoOlder
  <2> QED
    BY <2>3, <2>4
<1> QED
  BY <1>1, HandlersSee, TimesNext DEF FinishedAreSeen

\* No upload is compared with a run older than the newest that was stored, of
\* its branch, before it began - however the handlers overlap.
THEOREM FinishedRunsAreSeen == Spec => []SeesFinishedRuns
<1>1. Init => FinishedAreSeen
  BY DEF Init, FinishedAreSeen, SeesFinishedRuns, IdleHandler
<1>2. IngestInv /\ FinishedAreSeen /\ [Next]_vars => FinishedAreSeen'
  BY FinishedNext
<1>3. FinishedAreSeen => SeesFinishedRuns
  BY DEF FinishedAreSeen
<1> QED
  BY <1>1, <1>2, <1>3, IngestInvariance, PTL DEF Spec

-----------------------------------------------------------------------------
(* Counters.  ingestRun counts the results it has parsed; a reader gets      *)
(* those that the catalogue lets through.                                   *)

\* The counters of a record are those of its rows.
CountsItsRows(run) ==
    /\ run.passed = CountStatus(run.rows, "passed")
    /\ run.failed = CountStatus(run.rows, "failed")
    /\ run.skipped = CountStatus(run.rows, "skipped")
    /\ run.total = Len(run.rows)

CountersAgree == \A r \in DOMAIN runs : CountsItsRows(runs[r])

LEMMA CountersNext ==
    ASSUME IngestInv, CountersAgree, [Next]_vars
    PROVE  CountersAgree'
<1> USE DEF CountersAgree
<1>1. \A h : CountsItsRows(RunRecord(h))
  BY DEF CountsItsRows, RunRecord
<1>2. ASSUME NEW r \in DOMAIN runs' PROVE CountsItsRows(runs'[r])
  BY <1>1, <1>2, RunsChange
<1> QED
  BY <1>2 DEF CountsItsRows

\* The sizes of two sets without a common element add up.
LEMMA SizesAddUp ==
    ASSUME NEW S, IsFiniteSet(S), NEW T, IsFiniteSet(T), S \cap T = {}
    PROVE  /\ IsFiniteSet(S \cup T)
           /\ Cardinality(S \cup T) = Cardinality(S) + Cardinality(T)
           /\ Cardinality(S) \in Nat /\ Cardinality(T) \in Nat
<1>1. IsFiniteSet(S \cup T)
  BY FS_Union
<1>2. Cardinality(S \cup T) = Cardinality(S) + Cardinality(T) - Cardinality(S \cap T)
  BY FS_Union
<1>3. Cardinality(S \cap T) = 0
  BY FS_EmptySet
<1>4. Cardinality(S) \in Nat /\ Cardinality(T) \in Nat
  BY FS_CardinalityType
<1> QED
  BY <1>1, <1>2, <1>3, <1>4

\* The rows of a run are numbered up to their number.
LEMMA RowNumbers ==
    ASSUME NEW rows \in Rows
    PROVE  /\ IsFiniteSet(DOMAIN rows)
           /\ Cardinality(DOMAIN rows) = Len(rows)
<1>1. DOMAIN rows = 1 .. Len(rows) /\ Len(rows) \in Nat
  BY LenProperties DEF Rows
<1>2. IsFiniteSet(1 .. Len(rows))
  BY <1>1, FS_Interval
<1>3. Cardinality(1 .. Len(rows)) = IF 1 > Len(rows) THEN 0 ELSE Len(rows) - 1 + 1
  BY <1>1, FS_Interval
<1>4. Cardinality(1 .. Len(rows)) = Len(rows)
  BY <1>1, <1>3
<1> QED
  BY <1>1, <1>2, <1>4, Zenon

\* Results of one status: those that are listed, and those without a key.
LEMMA ListedAndNameless ==
    ASSUME IngestInv, CatalogueIsComplete, NEW r \in live, NEW s
    PROVE  CountOf(r, s) = CountStatus(runs[r].rows, s)
<1> DEFINE all == {i \in DOMAIN runs[r].rows : runs[r].rows[i].status = s}
<1>1. runs[r].rows \in Rows
  BY DEF IngestInv, TypeInv, TypeOK, RunRecords
<1>2. all = ListedWith(r, s) \cup NamelessWith(r, s)
  BY DEF ListedWith, NamelessWith, Listed, CatalogueIsComplete
<1>3. ListedWith(r, s) \cap NamelessWith(r, s) = {}
  <2>1. \A p : <<p, NoKey>> \notin tests
    BY ConstantsAssumption DEF IngestInv, TypeInv, TypeOK
  <2> QED
    BY <2>1 DEF ListedWith, NamelessWith, Listed
<1>4. IsFiniteSet(ListedWith(r, s)) /\ IsFiniteSet(NamelessWith(r, s))
  <2>1. ListedWith(r, s) \subseteq DOMAIN runs[r].rows
    BY DEF ListedWith, Listed
  <2>2. NamelessWith(r, s) \subseteq DOMAIN runs[r].rows
    BY DEF NamelessWith
  <2> QED
    BY <1>1, <2>1, <2>2, RowNumbers, FS_Subset
<1>5. Cardinality(all) = Cardinality(ListedWith(r, s)) + Cardinality(NamelessWith(r, s))
  BY <1>2, <1>3, <1>4, SizesAddUp, Zenon
<1> QED
  BY <1>5 DEF CountOf, CountStatus

\* Every result has one of the three statuses.
LEMMA StatusesAddUp ==
    ASSUME NEW rows \in Rows
    PROVE  Len(rows) = CountStatus(rows, "passed") + CountStatus(rows, "failed")
                         + CountStatus(rows, "skipped")
<1> DEFINE With(s) == {i \in DOMAIN rows : rows[i].status = s}
<1>1. IsFiniteSet(DOMAIN rows) /\ Cardinality(DOMAIN rows) = Len(rows)
  BY RowNumbers
<1>2. \A s : IsFiniteSet(With(s)) /\ CountStatus(rows, s) = Cardinality(With(s))
  <2> SUFFICES ASSUME NEW s PROVE IsFiniteSet(With(s))
    BY DEF CountStatus
  <2>1. With(s) \subseteq DOMAIN rows
    OBVIOUS
  <2> HIDE DEF With
  <2> QED
    BY <1>1, <2>1, FS_Subset
<1>3. With("passed") \cap With("failed") = {}
  OBVIOUS
<1>4. (With("passed") \cup With("failed")) \cap With("skipped") = {}
  OBVIOUS
<1>5. DOMAIN rows = (With("passed") \cup With("failed")) \cup With("skipped")
  BY RowTypes DEF Statuses
<1> HIDE DEF With
<1>6. /\ IsFiniteSet(With("passed") \cup With("failed"))
      /\ Cardinality(With("passed") \cup With("failed"))
           = Cardinality(With("passed")) + Cardinality(With("failed"))
      /\ Cardinality(With("passed")) \in Nat /\ Cardinality(With("failed")) \in Nat
  BY <1>2, <1>3, SizesAddUp, Zenon
<1>7. /\ Cardinality((With("passed") \cup With("failed")) \cup With("skipped")) =
           Cardinality(With("passed") \cup With("failed")) + Cardinality(With("skipped"))
      /\ Cardinality(With("skipped")) \in Nat
  BY <1>2, <1>4, <1>6, SizesAddUp, Zenon
<1>8. Len(rows) = Cardinality((With("passed") \cup With("failed")) \cup With("skipped"))
  BY <1>1, <1>5, Zenon
<1> QED
  BY <1>2, <1>6, <1>7, <1>8

\* The counters of a stored run are those of its listed results, but for the
\* results without a key, whatever uploads and deletions do to the catalogue.
THEOREM CountersTellTheListing == Spec => []CountersMatchListing
<1>1. Init => CatalogueIsComplete /\ CountersAgree
  BY DEF Init, CatalogueIsComplete, CountersAgree
<1>2. IngestInv /\ CatalogueIsComplete /\ CountersAgree /\ [Next]_vars
        => (CatalogueIsComplete /\ CountersAgree)'
  BY CatalogueNext, CountersNext
<1>3. IngestInv /\ CatalogueIsComplete /\ CountersAgree => CountersMatchListing
  <2> SUFFICES ASSUME IngestInv, CatalogueIsComplete, CountersAgree, NEW r \in live
               PROVE  /\ \A s : CountOf(r, s) = CountStatus(runs[r].rows, s)
                      /\ runs[r].rows \in Rows /\ CountsItsRows(runs[r])
    BY StatusesAddUp DEF CountersMatchListing, CountsItsRows
  <2>1. r \in DOMAIN runs /\ runs[r].rows \in Rows
    BY DEF IngestInv, TypeInv, TypeOK, RunRecords
  <2> QED
    BY <2>1, ListedAndNameless DEF CountersAgree
<1> QED
  BY <1>1, <1>2, <1>3, IngestInvariance, PTL DEF Spec

=============================================================================
