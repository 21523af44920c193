----------------------------- MODULE MCRequests -----------------------------
(* Two users of any roles, two requests, one slot.                         *)
EXTENDS Requests, TLC

Symmetry == Permutations(Procs) \cup Permutations(Users)
=============================================================================
