----------------------------- MODULE MCSessions -----------------------------
(* Small instances of Sessions for TLC.                                    *)
EXTENDS Sessions, TLC

\* Requests and token rows are interchangeable.
Symmetry == Permutations(Procs) \cup Permutations(Tokens)
=============================================================================
