----------------------------- MODULE MCCatalog ------------------------------
(* Two slugs, two requests at a time, two articles and two plans, one row   *)
(* of each other kind.                                                      *)
EXTENDS Catalog, TLC

MCMaxRows == [ k \in Kinds |-> IF k \in { "article", "plan" } THEN 2 ELSE 1 ]

\* The users are alike too.
Symmetry == Permutations(Procs) \cup Permutations(Slugs) \cup Permutations(Users)
=============================================================================
