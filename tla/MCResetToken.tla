--------------------------- MODULE MCResetToken ---------------------------
(* Two tokens that live for two seconds.                                   *)
EXTENDS ResetToken, TLC

Symmetry == Permutations(Procs) \cup Permutations(Tokens)

=============================================================================
