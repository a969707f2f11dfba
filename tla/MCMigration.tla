----------------------------- MODULE MCMigration -----------------------------
(* Small instances of Migration for TLC. *)
EXTENDS Migration, TLC

CONSTANTS a, b, k1, k2, l1, l2, n1, o1, o2

\* A result of an earlier version that printed to two streams, an old one and a
\* new one that share a text with it, and late ones of another test and of the same.
OutErr(stdout, stderr) == [s \in Streams |-> IF s = "stdout" THEN stdout ELSE stderr]
MCKeyOf == l1 :> k1 @@ l2 :> k1 @@ n1 :> k1 @@ o1 :> k2 @@ o2 :> k1
MCPrinted == l1 :> OutErr(a, b) @@ l2 :> OutErr(a, NoText) @@ n1 :> OutErr(b, NoText)
             @@ o1 :> OutErr(NoText, b) @@ o2 :> OutErr(a, NoText)
MCBlobColumns == <<"system_out_blob_id", "system_out_truncated">>
=============================================================================
