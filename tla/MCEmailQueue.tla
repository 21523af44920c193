---------------------------- MODULE MCEmailQueue ----------------------------
(* Two slots, the real three attempts, and three faults.                   *)
EXTENDS EmailQueue
=============================================================================
