------------------------------ MODULE MCIngest ------------------------------
(* Small instances of Ingest for TLC. *)
EXTENDS Ingest, TLC

CONSTANTS j1, j2, j3, p1, main, t1, t2

Row(k, s) == [key |-> k, status |-> s]
Report(rows) == [rows |-> rows, broken |-> FALSE]
Broken(rows) == [rows |-> rows, broken |-> TRUE]

\* One test that passes or fails, or fails and then passes, and an upload with an unreadable file.
Passing == Report(<<Row(t1, "passed")>>)
Failing == Report(<<Row(t1, "failed")>>)
Rerun == Report(<<Row(t1, "failed"), Row(t1, "passed")>>)
Unreadable == Broken(<<Row(t1, "failed")>>)
Fail == {Failing}
PassRerun == {Passing, Rerun}

\* The same test twice in one report, a skipped test and one without a name.
Mixed == {Report(<<Row(t1, "failed"), Row(t1, "passed"), Row(t2, "skipped"), Row(NoKey, "failed")>>),
          Unreadable}

\* Bound on the faults of a behaviour: requests that did not end well for their
\* client, and read errors that handlers or recorded runs carry along.
CONSTANT MaxFaults

Faults ==
    Cardinality({h \in RunIds : /\ client[h[1]].attempt >= h[2]
                                /\ client[h[1]] \notin {[state |-> "waiting", attempt |-> h[2]],
                                                        [state |-> "acked", attempt |-> h[2]]}})
    + Cardinality({h \in RunIds : handler[h].blind \/ (h \in DOMAIN runs /\ runs[h].blind)})

FewFaults == Faults <= MaxFaults

JobSymmetry == Permutations(Jobs)
=============================================================================
