----------------------------- MODULE RunHistory -----------------------------
(***************************************************************************)
(* What testrr promises about the runs of a project: a growing history of  *)
(* runs, each of which says which tests failed and which of those failures *)
(* are news.  A failure that is not announced as news was a failure of an  *)
(* earlier recorded run.  Runs may be withdrawn from what is shown, they   *)
(* never change and never come back.                                       *)
(***************************************************************************)
CONSTANTS Ids, Projects, Keys

VARIABLES
    history,    \* the recorded runs, by id
    shown       \* the ids of those that readers can still see

hvars == <<history, shown>>

Entries == [project : Projects, failed : SUBSET Keys, flagged : SUBSET Keys]

Init ==
    /\ history = [i \in {} |-> {}]
    /\ shown = {}

\* The keys that some recorded run of project p shows as failed.
KnownFailures(p) ==
    UNION {history[q].failed : q \in {r \in DOMAIN history : history[r].project = p}}

\* A new run is recorded under an id never used before.
Record(i, e) ==
    /\ i \notin DOMAIN history
    /\ e.flagged \subseteq e.failed
    /\ e.failed \ e.flagged \subseteq KnownFailures(e.project)
    /\ history' = [q \in DOMAIN history \cup {i} |-> IF q = i THEN e ELSE history[q]]
    /\ shown' = shown \cup {i}

\* Some runs are withdrawn.
Withdraw ==
    /\ shown' \subseteq shown
    /\ history' = history

Next ==
    \/ \E i \in Ids, e \in Entries : Record(i, e)
    \/ Withdraw

Spec == Init /\ [][Next]_hvars

=============================================================================
