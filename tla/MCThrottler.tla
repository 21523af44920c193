---------------------------- MODULE MCThrottler ----------------------------
(* A window of four ticks and a limit of three.                            *)
EXTENDS Throttler
=============================================================================
