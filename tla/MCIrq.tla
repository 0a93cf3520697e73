------------------------------- MODULE MCIrq --------------------------------
(* The interrupts of a machine whose tick counter has a few values; keys are
   pressed once the kernel listens to them.                                  *)
EXTENDS Irq

KeyboardStages == {"keyboard", "syscall", "idle"}

=============================================================================
