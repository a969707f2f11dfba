------------------------------- MODULE Pages -------------------------------
(***************************************************************************)
(* The pages and answers of internal/httpserver/server.go that only read.  *)
(* Each handler reads the project and then runs one to four queries, with  *)
(* no transaction around them; uploads are stored, old runs are pruned and *)
(* projects are deleted and created again in between.  Readers change      *)
(* nothing, so that one browser is all.                                    *)
(***************************************************************************)
EXTENDS Analytics

CONSTANTS
    Slugs,          \* names of projects
    NoProject,      \* ErrNotFound
    MaxProjects,    \* bound on the projects ever created
    MaxRuns,        \* bound on the runs ever stored
    MaxTime,        \* bound on the times of uploads
    Reports,        \* results that an upload may have
    Sorts,          \* the orders of a run page that are tried
    ListLimit       \* runs in a listing (50; 20 on the dashboard)

VARIABLES
    slugOf,     \* every project ever created
    projects,   \* rows of the projects table
    horizon,    \* everything uploaded earlier has been pruned
    visit,      \* the request that is handled, with what it has read
    latest      \* history: the newest run when all branches were listed last

vars == <<runs, live, slugOf, projects, horizon, visit, latest>>

Ids == 1 .. MaxProjects
RunIds == 1 .. MaxRuns
Times == 1 .. MaxTime

ASSUME PagesAssumption ==
    /\ MaxProjects \in Nat /\ MaxRuns \in Nat /\ MaxTime \in Nat \ {0}
    /\ Reports \subseteq Seq([key : Keys \cup {0}, status : Verdicts, millis : Nat, suite : Nat])
    /\ ListLimit \in Nat

-----------------------------------------------------------------------------
(* What others do.                                                         *)

CreateProject(s) ==
    LET p == Len(slugOf) + 1 IN
    /\ p \in Ids
    /\ \A q \in projects : slugOf[q] # s
    /\ slugOf' = Append(slugOf, s)
    /\ projects' = projects \cup {p}
    /\ UNCHANGED <<runs, live, horizon, visit, latest>>

BadRunsLeft(p) == live
RunsLeft(p) == {r \in live : runs[r].project # p}

\* Runs and results go with their project.
DeleteProject(p) ==
    /\ p \in projects
    /\ projects' = projects \ {p}
    /\ live' = RunsLeft(p)
    /\ UNCHANGED <<runs, slugOf, horizon, visit, latest>>

\* CreateRun: a run and all of its results at once, but in another order than
\* that of uploaded_at.  No request takes as long as the retention.
CreateRun(p, b, t, rows) ==
    LET r == Len(runs) + 1 IN
    /\ r \in RunIds
    /\ p \in projects
    /\ t >= horizon
    /\ \A q \in DOMAIN runs : runs[q].uploadedAt # t
    /\ runs' = Append(runs, [project |-> p, branch |-> b, uploadedAt |-> t,
                             rows |-> [i \in DOMAIN rows |->
                                        [id |-> <<r, i>>, key |-> rows[i].key,
                                         status |-> rows[i].status, millis |-> rows[i].millis,
                                         suite |-> rows[i].suite]]])
    /\ live' = live \cup {r}
    /\ UNCHANGED <<slugOf, projects, horizon, visit, latest>>

\* The DELETE of PruneRuns.
PruneRuns(cutoff) ==
    /\ cutoff > horizon
    /\ horizon' = cutoff
    /\ live' = {r \in live : runs[r].uploadedAt >= cutoff}
    /\ UNCHANGED <<runs, slugOf, projects, visit, latest>>

-----------------------------------------------------------------------------
(* Requests.                                                               *)

Listings == {"dashboard", "runs", "summary"}

\* The query of each page that comes after the one named.
After == [dashboard |-> [project |-> "runs", runs |-> "failing", failing |-> "flaky",
                         flaky |-> "slowest", slowest |-> "answered"],
          runs      |-> [project |-> "runs", runs |-> "answered"],
          summary   |-> [project |-> "runs", runs |-> "answered"],
          run       |-> [project |-> "run", run |-> "results", results |-> "recent",
                         recent |-> "answered"],
          runAPI    |-> [project |-> "run", run |-> "results", results |-> "answered"],
          test      |-> [project |-> "history", history |-> "answered"],
          chart     |-> [project |-> "chart", chart |-> "answered"]]

Blank == [page |-> "none", next |-> "none", project |-> NoProject, branch |-> NoBranch,
          run |-> 0, key |-> 0, sort |-> "", runs |-> <<>>, failing |-> <<>>, flaky |-> <<>>,
          slowest |-> <<>>, rows |-> <<>>, recent |-> <<>>, groups |-> <<>>]

Answered(page) == visit.page = page /\ visit.next = "answered"
Ended == visit.next \in {"answered", "failed"}

\* Query q of the request has been answered.
Go(q, read) == [read EXCEPT !.next = After[visit.page][q]]

\* Nobody but the handler moves.
Reads(q) ==
    /\ visit.next = q
    /\ UNCHANGED <<runs, live, slugOf, projects, horizon>>

\* URLs: listings with a branch, runs with an order, tests by their keys.
Urls ==
    LET urls(pages, branches, rs, keys, sorts) ==
            [page : pages, slug : Slugs, branch : branches, run : rs, key : keys, sort : sorts]
    IN  urls(Listings, Branches, {0}, {0}, {""})
        \cup urls({"run"}, {NoBranch}, DOMAIN runs, {0}, Sorts)
        \cup urls({"runAPI"}, {NoBranch}, DOMAIN runs, {0}, {""})
        \cup urls({"test", "chart"}, {NoBranch}, {0}, Keys, {""})

\* A request arrives, and loadProject or AuthenticateBasic reads the project.
Open ==
    /\ visit = Blank
    /\ \E url \in Urls :
          LET found == {p \in projects : slugOf[p] = url.slug} IN
          visit' = IF found = {} THEN [Blank EXCEPT !.next = "failed"]
                   ELSE [Blank EXCEPT
                           !.page = url.page,
                           !.next = After[url.page].project,
                           !.project = CHOOSE p \in found : TRUE,
                           !.branch = url.branch,
                           !.run = url.run,
                           !.key = url.key,
                           !.sort = url.sort]
    /\ UNCHANGED <<runs, live, slugOf, projects, horizon, latest>>

\* ListRunsByProject; the summary has its charts from left to right.
ListRuns ==
    LET listed == FirstOf(Newest(RunsOf(visit.project, visit.branch)), ListLimit) IN
    /\ Reads("runs")
    /\ visit' = Go("runs", [visit EXCEPT !.runs = IF visit.page = "summary"
                                                  THEN Reverse(listed) ELSE listed])
    /\ latest' = IF visit.branch = NoBranch
                 THEN [project |-> visit.project, run |-> IF listed = <<>> THEN 0 ELSE listed[1]]
                 ELSE latest

ReadFailing ==
    /\ Reads("failing")
    /\ visit' = Go("failing", [visit EXCEPT
                    !.failing = GetTopFailingTests(visit.project, visit.branch)])
    /\ UNCHANGED latest

ReadFlaky ==
    /\ Reads("flaky")
    /\ \E scans \in Scans \X Scans :
          visit' = Go("flaky", [visit EXCEPT
                      !.flaky = GetFlakyTests(visit.project, visit.branch, scans)])
    /\ UNCHANGED latest

ReadSlowest ==
    /\ Reads("slowest")
    /\ \E scan \in Scans :
          visit' = Go("slowest", [visit EXCEPT
                      !.slowest = GetSlowestTests(visit.project, visit.branch, scan)])
    /\ UNCHANGED latest

\* WHERE project_id = ? AND id = ?
FoundRun(r, p) == r \in live /\ runs[r].project = p

GetRun ==
    /\ Reads("run")
    /\ visit' = IF FoundRun(visit.run, visit.project)
                THEN Go("run", [visit EXCEPT !.branch = runs[visit.run].branch])
                ELSE [Blank EXCEPT !.next = "failed"]
    /\ UNCHANGED latest

ReadResults ==
    /\ Reads("results")
    /\ visit' = Go("results", [visit EXCEPT !.rows = ListRunResults(visit.run)])
    /\ UNCHANGED latest

\* sortRunResults
StatusRank == [failed |-> 0, skipped |-> 1, passed |-> 2]

SortRunResults(rows, sort) ==
    Arranged(rows, [i \in DOMAIN rows |->
                       CASE sort = "name" -> 0
                         [] sort = "status" -> StatusRank[rows[i].status]
                         [] sort = "slowest" -> -rows[i].millis
                         [] OTHER -> rows[i].suite])

\* groupRunResults: buckets in the order of their first results.
BadBucket(rows, name) == <<rows[CHOOSE i \in DOMAIN rows : rows[i].suite = name]>>
Bucket(rows, name) == Select(rows, {i \in DOMAIN rows : rows[i].suite = name})

GroupRunResults(rows) ==
    LET first == {i \in DOMAIN rows : \A j \in 1 .. i - 1 : rows[j].suite # rows[i].suite}
        names == Select(rows, first)
    IN  [n \in DOMAIN names |-> Bucket(rows, names[n].suite)]

\* GetRecentTestStatuses for the keys that have been read, and the page.
ReadRecent ==
    /\ Reads("recent")
    /\ \E scan \in Scans :
          visit' = Go("recent", [visit EXCEPT
                      !.recent = [k \in {visit.rows[i].key : i \in DOMAIN visit.rows} |->
                                    RecentStatuses(visit.project, visit.branch, k, scan)],
                      !.groups = GroupRunResults(SortRunResults(visit.rows, visit.sort))])
    /\ UNCHANGED latest

ReadHistory ==
    /\ Reads("history")
    /\ \E scan \in Scans :
          visit' = Go("history", [visit EXCEPT
                      !.rows = TestHistory(visit.project, visit.key, scan)])
    /\ UNCHANGED latest

ReadChart ==
    /\ Reads("chart")
    /\ \E scans \in Scans \X Scans :
          visit' = Go("chart", [visit EXCEPT
                      !.rows = TestDurationChart(visit.project, visit.key, scans)])
    /\ UNCHANGED latest

\* Any query may fail: 500, and the browser shows an error.
QueryFails ==
    /\ visit # Blank
    /\ ~ Ended
    /\ visit' = [Blank EXCEPT !.next = "failed"]
    /\ UNCHANGED <<runs, live, slugOf, projects, horizon, latest>>

\* The answer is sent, and the browser free for another request.
Respond ==
    /\ Ended
    /\ visit' = Blank
    /\ UNCHANGED <<runs, live, slugOf, projects, horizon, latest>>

-----------------------------------------------------------------------------
Init ==
    /\ runs = <<>>
    /\ live = {}
    /\ slugOf = <<>>
    /\ projects = {}
    /\ horizon = 1
    /\ visit = Blank
    /\ latest = [project |-> NoProject, run |-> 0]

Others ==
    \/ \E s \in Slugs : CreateProject(s)
    \/ \E p \in Ids : DeleteProject(p)
    \/ \E p \in Ids, b \in Branches, t \in Times, rows \in Reports : CreateRun(p, b, t, rows)
    \/ \E cutoff \in Times : PruneRuns(cutoff)

Handle ==
    \/ ListRuns \/ ReadFailing \/ ReadFlaky \/ ReadSlowest
    \/ GetRun \/ ReadResults \/ ReadRecent
    \/ ReadHistory \/ ReadChart
    \/ QueryFails \/ Respond

Next ==
    \/ Others
    \/ Open
    \/ Handle

Spec == Init /\ [][Next]_vars

-----------------------------------------------------------------------------
(* Properties.                                                             *)

Rows == [id : RunIds \X (Nat \ {0}), key : Keys \cup {0}, status : Verdicts, millis : Nat,
         suite : Nat]

\* Tables and what a request has read keep the types of their Go declarations
\* and of their foreign keys.
TypeOK ==
    /\ runs \in Seq([project : Ids, branch : Branches, uploadedAt : Times, rows : Seq(Rows)])
    /\ live \subseteq {r \in DOMAIN runs : runs[r].project \in projects}
    /\ slugOf \in Seq(Slugs)
    /\ projects \subseteq DOMAIN slugOf
    /\ horizon \in Times
    /\ visit.project \in Ids \cup {NoProject}
    /\ visit.runs \in Seq(DOMAIN runs)
    /\ visit.rows \in Seq(Rows)
    /\ visit.groups \in Seq(Seq(Rows))
    /\ latest.run \in DOMAIN runs \cup {0}

\* Where a run page shows a result: in which group, and where in it.
Places == UNION {{g} \X (DOMAIN visit.groups[g]) : g \in DOMAIN visit.groups}

At(place) == visit.groups[place[1]][place[2]]

Shown == {At(place) : place \in Places}

\* A run page is whole, though its run, its results and their history are read
\* one after the other: in whatever order and groups, it has every result that
\* has a key exactly once; or none, and then the run is gone by now.
RunPageIsWhole ==
    Answered("run") =>
        \/ /\ Shown = {row \in ToSet(runs[visit.run].rows) : row.key # 0}
           /\ \A place, other \in Places : At(place) = At(other) => place = other
        \/ Shown = {} /\ visit.run \notin live

\* Results of test k that the run page of r may show instead of r's own.
NotOlder(r, k) ==
    {row \in ResultsOf(runs[r].project, runs[r].branch, k) :
        runs[row.id[1]].uploadedAt >= runs[r].uploadedAt}

\* The statuses beside a result (GetRecentTestStatuses runs after the results
\* have been read, on whatever is there by then) include its own, as long as its
\* run is there, unless as many others of that test are as new.
OwnStatusIsRecent ==
    (Answered("run") /\ visit.run \in live) =>
        \A row \in Shown :
            \/ row.status \in ToSet(visit.recent[row.key])
            \/ Cardinality(NotOlder(visit.run, row.key) \ {row}) >= RecentLimit

\* A page shows runs and results of the project that its slug named when the
\* request came, also if the project is deleted and another one takes its slug.
NothingForeignIsShown ==
    /\ \A i \in DOMAIN visit.runs : runs[visit.runs[i]].project = visit.project
    /\ \A i \in DOMAIN visit.rows : runs[visit.rows[i].id[1]].project = visit.project

\* Failures of test k in runs that are listed, and not deleted since.
ListedFailures(k) ==
    {row \in UNION {ToSet(runs[r].rows) : r \in live \cap ToSet(visit.runs)} :
        row.key = k /\ row.status = "failed"}

\* The four queries of a dashboard agree: the listed failures of a test are
\* among its failures in the list of failing tests, or that list is full with
\* tests that have no fewer.
ListedFailuresAreNamed ==
    Answered("dashboard") =>
        \A k \in Keys :
            LET enough(item) == item.count >= Cardinality(ListedFailures(k)) IN
            ListedFailures(k) # {} =>
                \/ \E i \in DOMAIN visit.failing :
                      visit.failing[i].key = k /\ enough(visit.failing[i])
                \/ /\ Len(visit.failing) = TopLimit
                   /\ \A i \in DOMAIN visit.failing : enough(visit.failing[i])

\* Of verdicts on a test, those that are in its window, and those that may be, as
\* the results of the run at its edge have no order.
InWindow(rows) ==
    {x \in rows : Cardinality({y \in rows : ~ Newer(x.id[1], y.id[1])}) <= WindowLimit}
MaybeInWindow(rows) ==
    {x \in rows : Cardinality({y \in rows : Newer(y.id[1], x.id[1])}) < WindowLimit}

\* From one run to a later and from there to a still later one the verdict changed.
WentToAndFro(rows) ==
    \E x, y, z \in rows :
        /\ Newer(y.id[1], x.id[1]) /\ Newer(z.id[1], y.id[1])
        /\ x.status = z.status /\ x.status # y.status

\* One run has both verdicts on the test, in two suites or under one key.
IsDivided(rows) == \E x, y \in rows : x.id[1] = y.id[1] /\ x.status # y.status

\* Results of a run have no order of their own, yet GetFlakyTests sorts them twice
\* and counts the changes from one to the next.  In whatever order they are met, a
\* test is on the list only if it went to and fro between three of its last runs:
\* to break once or to be repaired once makes none flaky, in however many suites
\* of a run it is.  The exception is a test on which a run is divided, and then the
\* two results of this run are not all there is.  Conversely a test that went to
\* and fro between runs is on the list, divided or not, unless the list is full.
FlakyTestsAlternate ==
    [][(visit.next = "flaky" /\ visit'.next = "slowest") =>
          \A k \in Keys :
              LET verdicts == VerdictsOn(visit.project, visit.branch, k)
                  last == MaybeInWindow(verdicts)
              IN  IF \E i \in DOMAIN visit'.flaky : visit'.flaky[i].key = k
                  THEN \/ WentToAndFro(last)
                       \/ IsDivided(last) /\ Cardinality(last) > 2
                  ELSE WentToAndFro(InWindow(verdicts)) => Len(visit'.flaky) = TopLimit]_vars

\* Who looks at the runs of a project again never sees the newest one replaced
\* by an older one, though uploads are stored in any order and old runs are
\* pruned: ORDER BY and the prune go by the same time.
LatestNeverGoesBack ==
    [][(/\ latest'.project = latest.project
        /\ latest.run # 0 /\ latest'.run # 0) =>
           runs'[latest'.run].uploadedAt >= runs[latest.run].uploadedAt]_vars
=============================================================================
