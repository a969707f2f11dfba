----------------------------- MODULE MCProjects -----------------------------
(* Small instances of Projects for TLC. *)
EXTENDS Projects, TLC

CONSTANTS o1, o2, r1, x1, x2

\* Operators and secrets are only compared for equality.
Interchangeable ==
    {f @@ g : f \in Permutations({o1, o2}), g \in Permutations({x1, x2})}
=============================================================================
