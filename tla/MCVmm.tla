------------------------------- MODULE MCVmm -------------------------------
(* Six frames of RAM behind three identity tables, two further directory      *)
(* entries, and device registers that touch the identity map, straddle two     *)
(* tables, and end within a page.                                              *)
EXTENDS Vmm

MCMmio == {<<24, 6>>, <<31, 2>>, <<22, 3>>}
=============================================================================
