------------------------------- MODULE MCTask -------------------------------
(* The scheduler on a small machine.  TICK_MOD is 1 modulo 5, as 2^32 is.    *)
EXTENDS Task

=============================================================================
