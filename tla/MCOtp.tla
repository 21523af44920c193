------------------------------- MODULE MCOtp -------------------------------
(* One address, a few requests, short lives.                               *)
EXTENDS Otp, TLC

Symmetry == Permutations(Procs)

=============================================================================
