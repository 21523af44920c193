-------------------------- MODULE MCArticleCache --------------------------
(* Readers without a plan, editors and the list, against a few writes.     *)
EXTENDS ArticleCache, TLC

Symmetry == Permutations(Procs)

=============================================================================
