------------------------------ MODULE MCPages ------------------------------
(* Small instances of Pages for TLC. *)
EXTENDS Pages

CONSTANT main

Result(k, s, m, suite) == [key |-> k, status |-> s, millis |-> m, suite |-> suite]

\* Test 1 fails in one run and passes in the other; test 2 fails in one suite and
\* passes in another, or passes; and there is a result without a key.
TwoTests ==
    {<<Result(1, "failed", 1, 1), Result(2, "failed", 1, 1), Result(2, "passed", 2, 2)>>,
     <<Result(1, "passed", 0, 1), Result(2, "passed", 2, 1), Result(0, "skipped", 0, 1)>>}

\* Nothing is read while an answer is on its way: others go on when it is sent.
AnswersAreSentAtOnce == Ended => visit' = Blank

\* A project that takes the slug of another has at most one run, beside one of the other.
LaterProjectIsSmall ==
    LET of(p) == {r \in DOMAIN runs : runs[r].project = p} IN
    Len(slugOf) = 2 => of(1) # {} /\ Cardinality(of(1)) + Cardinality(of(2)) <= 2
=============================================================================
