----------------------------- MODULE Analytics -----------------------------
(***************************************************************************)
(* What the queries of internal/store/analytics.go and the listings of     *)
(* store.go return, each over the tables as they are when it runs.         *)
(*                                                                         *)
(* uploadedAt is the place of a run's uploaded_at in the order of these    *)
(* texts.  Tests and suites are the numbers of their names in that order;  *)
(* test 0 is a result without a key, which has no row in the catalogue and *)
(* is in no join with it.  Results of one run have the same uploaded_at:   *)
(* scan says which of them ORDER BY uploaded_at puts first, those inserted *)
(* first or last.  A query that sorts twice has two scans, as the second   *)
(* sort is free to order them in another way.                              *)
(***************************************************************************)
EXTENDS Orders

CONSTANTS
    Keys,           \* keys of tests, positive numbers
    Branches,       \* the branches of runs
    NoBranch,       \* the empty branch: in a query, all of them
    RecentLimit,    \* statuses beside a result (6 in the code)
    WindowLimit,    \* recentTestObservationLimit (30)
    TopLimit        \* tests in a list of the dashboard (5)

ASSUME AnalyticsAssumption ==
    /\ IsFiniteSet(Keys) /\ Keys \subseteq Nat \ {0}
    /\ NoBranch \in Branches
    /\ RecentLimit \in Nat /\ WindowLimit \in Nat /\ TopLimit \in Nat

VARIABLES
    runs,       \* every run ever stored, with its results
    live        \* rows of the runs table

Verdicts == {"passed", "failed", "skipped"}

-----------------------------------------------------------------------------
(* Lists.                                                                  *)

\* Results by a number that each of them has, then by their tests; a stable sort.
Arranged(rows, number) ==
    LET before(i, j) ==
            \/ number[i] < number[j]
            \/ number[i] = number[j] /\ rows[i].key < rows[j].key
            \/ number[i] = number[j] /\ rows[i].key = rows[j].key /\ i < j
        at == InOrder(DOMAIN rows, {e \in (DOMAIN rows) \X (DOMAIN rows) : before(e[1], e[2])})
    IN  [n \in DOMAIN at |-> rows[at[n]]]

\* LIMIT ?
BadFirstOf(seq, limit) == SubSeq(seq, 1 + (IF limit < Len(seq) THEN Len(seq) - limit ELSE 0), Len(seq))
FirstOf(seq, limit) == SubSeq(seq, 1, IF limit < Len(seq) THEN limit ELSE Len(seq))

-----------------------------------------------------------------------------
(* Runs and results.                                                       *)

\* (? = '' OR r.branch = ?)
OnBranch(r, b) == b = NoBranch \/ runs[r].branch = b

\* WHERE project_id = ? AND (? = '' OR branch = ?)
BadRunsOf(p, b) == {r \in live : OnBranch(r, b)}
RunsOf(p, b) == {r \in live : runs[r].project = p /\ OnBranch(r, b)}

\* ORDER BY uploaded_at DESC
BadNewer(r, q) == r > q
Newer(r, q) == runs[r].uploadedAt > runs[q].uploadedAt

Newest(rs) == InOrder(rs, {e \in rs \X rs : Newer(e[1], e[2])})

\* The join of test_results, tests and runs for one test.
ResultsOf(p, b, k) ==
    {row \in UNION {ToSet(runs[r].rows) : r \in RunsOf(p, b)} : row.key = k}

Scans == {"forwards", "backwards"}

NewerRow(x, y, scan) ==
    \/ Newer(x.id[1], y.id[1])
    \/ /\ x.id[1] = y.id[1]
       /\ IF scan = "forwards" THEN x.id[2] < y.id[2] ELSE x.id[2] > y.id[2]

\* ORDER BY uploaded_at DESC, and ORDER BY uploaded_at ASC: sorts of their own.
NewestRows(rows, scan) == InOrder(rows, {e \in rows \X rows : NewerRow(e[1], e[2], scan)})
OldestRows(rows, scan) == Reverse(NewestRows(rows, scan))

\* GetRecentTestStatuses for one of its keys.
RecentStatuses(p, b, k, scan) ==
    LET recent == FirstOf(NewestRows(ResultsOf(p, b, k), scan), RecentLimit)
    IN  [i \in DOMAIN recent |-> recent[i].status]

\* GetTestHistory
TestHistory(p, k, scan) == FirstOf(NewestRows(ResultsOf(p, NoBranch, k), scan), WindowLimit)

\* GetTestDurationChart: the last results, sorted again.
TestDurationChart(p, k, scans) == OldestRows(ToSet(TestHistory(p, k, scans[1])), scans[2])

\* ListRunResults and its inner join: by the texts of statuses from the last to
\* the first.
TextRank == [skipped |-> 0, passed |-> 1, failed |-> 2]

ListRunResults(r) ==
    LET rows == Select(runs[r].rows, {i \in DOMAIN runs[r].rows : runs[r].rows[i].key # 0})
    IN  IF r \in live THEN Arranged(rows, [i \in DOMAIN rows |-> TextRank[rows[i].status]])
        ELSE <<>>

-----------------------------------------------------------------------------
(* The lists of the dashboard: at most TopLimit of those that qualify.     *)

\* getTopFailingTests
BadFailuresOf(p, b, k) ==
    Cardinality({r \in RunsOf(p, b) :
                    /\ runs[r].branch = b
                    /\ \E row \in ToSet(runs[r].rows) : row.key = k /\ row.status = "failed"})

FailuresOf(p, b, k) == Cardinality({row \in ResultsOf(p, b, k) : row.status = "failed"})

MoreFailures(x, y) == x.count > y.count \/ (x.count = y.count /\ x.key < y.key)

GetTopFailingTests(p, b) ==
    LET failing == {[key |-> k, count |-> FailuresOf(p, b, k)] :
                       k \in {l \in Keys : FailuresOf(p, b, l) > 0}}
    IN  FirstOf(InOrder(failing, {e \in failing \X failing : MoreFailures(e[1], e[2])}), TopLimit)

\* GetFlakyTests: the last verdicts, by ROW_NUMBER, then sorted again for LAG.
VerdictsOn(p, b, k) == {row \in ResultsOf(p, b, k) : row.status \in {"passed", "failed"}}

Window(p, b, k, scans) ==
    OldestRows(ToSet(FirstOf(NewestRows(VerdictsOn(p, b, k), scans[1]), WindowLimit)), scans[2])

Transitions(window) ==
    Cardinality({i \in 2 .. Len(window) : window[i].status # window[i - 1].status})

BadIsFlaky(window) == Transitions(window) > 0
IsFlaky(window) == Transitions(window) > 1

FlakyTest(k, window) ==
    [key |-> k, transitions |-> Transitions(window),
     failures |-> Cardinality({i \in DOMAIN window : window[i].status = "failed"}),
     total |-> Len(window)]

Flakier(x, y) ==
    \/ x.transitions > y.transitions
    \/ x.transitions = y.transitions /\ x.failures > y.failures
    \/ x.transitions = y.transitions /\ x.failures = y.failures /\ x.key < y.key

GetFlakyTests(p, b, scans) ==
    LET flaky == {FlakyTest(k, Window(p, b, k, scans)) :
                     k \in {l \in Keys : IsFlaky(Window(p, b, l, scans))}}
    IN  FirstOf(InOrder(flaky, {e \in flaky \X flaky : Flakier(e[1], e[2])}), TopLimit)

\* GetSlowestTests: averages of durations that are known, which are compared
\* before they are rounded.
Samples(p, b, k, scan) ==
    FirstOf(NewestRows({row \in ResultsOf(p, b, k) : row.millis > 0}, scan), WindowLimit)

SlowTest(k, samples) ==
    [key |-> k, millis |-> FoldSeq(LAMBDA row, sum : row.millis + sum, 0, samples),
     samples |-> Len(samples)]

Slower(x, y) ==
    LET average(one, other) == one.millis * other.samples IN
    \/ average(x, y) > average(y, x)
    \/ average(x, y) = average(y, x) /\ x.samples > y.samples
    \/ average(x, y) = average(y, x) /\ x.samples = y.samples /\ x.key < y.key

GetSlowestTests(p, b, scan) ==
    LET slow == {SlowTest(k, Samples(p, b, k, scan)) :
                    k \in {l \in Keys : Samples(p, b, l, scan) # <<>>}}
    IN  FirstOf(InOrder(slow, {e \in slow \X slow : Slower(e[1], e[2])}), TopLimit)
=============================================================================
