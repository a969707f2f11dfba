------------------------------ MODULE MCStorage ------------------------------
(* Small instances of Storage for TLC. *)
EXTENDS Storage, TLC

CONSTANTS u1, u2, u3, p1, short, long, n1, n2

\* A long text is cut to what the short one is.
ShortAndLong == {short, long}
CutToShort == [t \in ShortAndLong |-> short]

Result(st, out, err) == [status |-> st, text |-> [stdout |-> out, stderr |-> err]]
File(n) == [name |-> n, broken |-> FALSE]
Bad(n) == [name |-> n, broken |-> TRUE]

\* A failed test that prints to one stream, one that prints to both, a passing one.
Quiet == [files |-> <<File(n1)>>, results |-> <<Result("failed", NoText, long)>>]
Noisy == [files |-> <<File(n1)>>,
          results |-> <<Result("failed", short, long), Result("passed", short, NoText)>>]
\* An upload with a file that cannot be parsed; it is recorded without results.
Unreadable == [files |-> <<File(n1), Bad(n2)>>, results |-> <<Result("failed", short, NoText)>>]
\* Two files of the same name.
SameName == [files |-> <<File(n1), File(n1)>>, results |-> <<Result("failed", short, NoText)>>]

AllReports == {Quiet, Noisy, Unreadable, SameName}
BrokenOnly == {Unreadable}

\* A handler does not take longer than a tick.
PromptUploads ==
    \A u \in Uploads : upload[u].pc \in {"files", "results"} => now <= upload[u].uploadedAt + 1
=============================================================================
