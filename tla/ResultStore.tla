---------------------------- MODULE ResultStore -----------------------------
(***************************************************************************)
(* What the database of testrr means, whichever of its schemas it has and  *)
(* however many processes are bringing it to the newest one: a set of test *)
(* results, each with the name of its test and what the test printed.      *)
(* Results are added and deleted; a migration is nothing at all.           *)
(***************************************************************************)
CONSTANT Ids

VARIABLE rows       \* [id, name, text]

IdsOf(R) == {row.id : row \in R}

Init == \A r, s \in rows : r.id = s.id => r = s

\* A run is recorded.
Add(i) ==
    /\ i \notin IdsOf(rows)
    /\ \E row \in rows' \ rows : row.id = i /\ rows' = rows \cup {row}

\* A run is deleted, by hand or because it is old.
Delete == rows' \subseteq rows

Next ==
    \/ \E i \in Ids : Add(i)
    \/ Delete

Spec == Init /\ [][Next]_rows
=============================================================================
