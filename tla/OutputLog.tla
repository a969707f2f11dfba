----------------------------- MODULE OutputLog ------------------------------
(***************************************************************************)
(* What testrr promises about the outputs of tests, whatever it does to    *)
(* store a text only once and to get rid of old ones: the outputs of a run *)
(* appear together, with the run, exactly once; an output that is shown is *)
(* never altered; and as long as its run has to be kept it does not go     *)
(* away.                                                                   *)
(***************************************************************************)
CONSTANT Ids

VARIABLES
    log,        \* the outputs that are shown: [run, result, shown]
    recorded,   \* the runs that have ever been recorded
    kept        \* those whose outputs have to be kept for now

lvars == <<log, recorded, kept>>

Init ==
    /\ log = {}
    /\ recorded = {}
    /\ kept = {}

\* Run i is recorded with all its outputs.
Record(i) ==
    /\ i \notin recorded
    /\ recorded' = recorded \cup {i}
    /\ kept' \in {kept, kept \cup {i}}
    /\ log \subseteq log'
    /\ \A e \in log' \ log : e.run = i

\* Runs need no longer be kept, outputs of runs that need not be are removed.
Forget ==
    /\ UNCHANGED recorded
    /\ kept' \subseteq kept
    /\ log' \subseteq log
    /\ \A e \in log \ log' : e.run \notin kept'

Next ==
    \/ \E i \in Ids : Record(i)
    \/ Forget

Spec == Init /\ [][Next]_lvars
=============================================================================
