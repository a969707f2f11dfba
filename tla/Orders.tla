------------------------------- MODULE Orders -------------------------------
(***************************************************************************)
(* Sets put in order and picked from sequences: what ORDER BY returns      *)
(* (internal/store/analytics.go) and what a loop with an if keeps          *)
(* (internal/httpserver/server.go, internal/parser).  The provers know     *)
(* nothing of SortSeq and SelectSeq; OrdersProofs says what these return.  *)
(***************************************************************************)
EXTENDS Integers, FiniteSets, SequencesExt

\* ORDER BY: the elements of S as the strict total order R has them.
InOrder(S, R) ==
    LET rank == [x \in S |-> Cardinality({y \in S : <<y, x>> \in R})]
    IN  [n \in 1 .. Cardinality(S) |-> CHOOSE x \in S : rank[x] = n - 1]

\* Numbers, the least first.
Ascending(I) == InOrder(I, {e \in I \X I : e[1] < e[2]})

\* The elements of a sequence at the places I.
Select(seq, I) == LET at == Ascending(I) IN [n \in DOMAIN at |-> seq[at[n]]]
=============================================================================
